---- MODULE Spec2Model ----
(***************************************************************************)
(* Model of the lambda-to-OData serializer of ExpressionSerializer.        *)
(*                                                                         *)
(* The TypeScript walker (convertExpressionToODataString) is modelled over *)
(* the TypeScript AST: a node is a record [kind, text, type, children],    *)
(* where children lists the child nodes in the order forEachChild visits   *)
(* them, text is the node's own text (identifier name, literal text,       *)
(* operator of a prefix-unary node) and type is what the type checker's    *)
(* typeToString(getTypeAtLocation(node)) answers for the node (for a       *)
(* string literal the field holds the quote character of the source).      *)
(* A node is addressed by its path from the root arrow function, so that   *)
(* node.parent is the path without its last index.                         *)
(***************************************************************************)
EXTENDS Integers, Sequences, FiniteSets, TLC

VARIABLES call, pc, result, error, walks, closures

vars == <<call, pc, result, error, walks, closures>>

(***************************************************************************)
(* Bounds of the input universe.                                           *)
(***************************************************************************)
\* longest member-access chain x.p1.p2...pn
MaxChain == 3

\* nesting depth of logical operators, groupings and negations over comparisons
MaxNest == 1

\* calls each caller makes one after the other, when calls interleave
MaxCalls == 2

\* import declarations of a source file, and calls after them
MaxStatements == 2

(***************************************************************************)
(* AST nodes.                                                              *)
(***************************************************************************)
Node(kind, text, type, children) ==
    [kind |-> kind, text |-> text, type |-> type, children |-> children]

UndefinedNode == Node("undefined", "", "", <<>>)

\* lambdaParameter before any arrow-function parameter was read
Undefined == "<undefined>"

Token(kind) == Node(kind, "", "", <<>>)

Identifier(text, type) == Node("Identifier", text, type, <<>>)

PropertyAccess(object, name, type) ==
    Node("PropertyAccessExpression", "", type, <<object, Identifier(name, type)>>)

Binary(left, operatorKind, right) ==
    Node("BinaryExpression", "", "", <<left, Token(operatorKind), right>>)

PrefixUnary(operator, operand) ==
    Node("PrefixUnaryExpression", operator, "", <<operand>>)

Parenthesized(inner) == Node("ParenthesizedExpression", "", "", <<inner>>)

StringLit(text, quote) == Node("StringLiteral", text, quote, <<>>)

NumericLit(text) == Node("NumericLiteral", text, "number", <<>>)

\* The quote of a template literal, U+0060 GRAVE ACCENT.  A string of this
\* language cannot hold that character, so it is written by its code point.
GraveAccent == "<U+0060>"

\* a template literal without substitutions
TemplateLit(text) == Node("NoSubstitutionTemplateLiteral", text, GraveAccent, <<>>)

Call(callee, arguments) == Node("CallExpression", "", "", <<callee>> \o arguments)

\* a call whose static type is type
TypedCall(callee, arguments, type) ==
    Node("CallExpression", "", type, <<callee>> \o arguments)

Parameter(name) == Node("Parameter", "", "", <<Identifier(name, "any")>>)

Arrow(name, body) ==
    Node("ArrowFunction", "", "", <<Parameter(name), Token("EqualsGreaterThanToken"), body>>)

(***************************************************************************)
(* Source text of the tokens (what getText() returns for an operator).     *)
(***************************************************************************)
TokenText(kind) ==
    CASE kind = "GreaterThanToken" -> ">"
      [] kind = "GreaterThanEqualsToken" -> ">="
      [] kind = "LessThanToken" -> "<"
      [] kind = "LessThanEqualsToken" -> "<="
      [] kind = "EqualsEqualsToken" -> "=="
      [] kind = "EqualsEqualsEqualsToken" -> "==="
      [] kind = "ExclamationEqualsToken" -> "!="
      [] kind = "ExclamationEqualsEqualsToken" -> "!=="
      [] kind = "AmpersandAmpersandToken" -> "&&"
      [] kind = "BarBarToken" -> "||"
      [] kind = "OpenParenToken" -> "("
      [] kind = "CloseParenToken" -> ")"
      [] kind = "ExclamationToken" -> "!"
      [] kind = "PlusToken" -> "+"
      [] kind = "MinusToken" -> "-"
      [] kind = "AsteriskToken" -> "*"
      [] kind = "SlashToken" -> "/"
      [] kind = "PercentToken" -> "%"
      [] kind = "AmpersandToken" -> "&"
      [] kind = "BarToken" -> "|"
      [] kind = "CaretToken" -> "^"
      [] kind = "EqualsGreaterThanToken" -> "=>"
      [] kind = "TrueKeyword" -> "true"
      [] kind = "FalseKeyword" -> "false"
      [] kind = "NullKeyword" -> "null"
      [] kind = "UndefinedKeyword" -> "undefined"
      [] kind = "ThisKeyword" -> "this"
      [] OTHER -> ""

RECURSIVE JoinFrom(_, _, _)
JoinFrom(strs, sep, i) ==
    IF i > Len(strs) THEN ""
    ELSE IF i = Len(strs) THEN strs[i]
    ELSE strs[i] \o sep \o JoinFrom(strs, sep, i + 1)

\* Array.prototype.join
Join(strs, sep) == JoinFrom(strs, sep, 1)

\* Node.getText(): the source text of a node, written with the spacing of
\* Function.prototype.toString() output (one space around binary operators
\* and the arrow, ", " between arguments).
RECURSIVE getText(_)
getText(node) ==
    CASE node.kind = "Identifier" -> node.text
      [] node.kind = "NumericLiteral" -> node.text
      [] node.kind = "StringLiteral" -> node.type \o node.text \o node.type
      [] node.kind = "NoSubstitutionTemplateLiteral" -> node.type \o node.text \o node.type
      [] node.kind = "PropertyAccessExpression" ->
            getText(node.children[1]) \o "." \o getText(node.children[2])
      [] node.kind = "BinaryExpression" ->
            getText(node.children[1]) \o " " \o getText(node.children[2])
                \o " " \o getText(node.children[3])
      [] node.kind = "PrefixUnaryExpression" ->
            node.text \o getText(node.children[1])
      [] node.kind = "ParenthesizedExpression" ->
            "(" \o getText(node.children[1]) \o ")"
      [] node.kind = "CallExpression" ->
            getText(node.children[1]) \o "("
                \o Join([i \in 1..(Len(node.children) - 1) |->
                            getText(node.children[i + 1])], ", ")
                \o ")"
      [] node.kind = "Parameter" -> getText(node.children[1])
      [] node.kind = "ArrowFunction" ->
            getText(node.children[1]) \o " => " \o getText(node.children[Len(node.children)])
      [] OTHER -> TokenText(node.kind)

\* Node.getLastToken()?.getText() of a call's callee: the member name of a
\* property access; an identifier is itself a token and has no last token.
LastTokenText(node) ==
    CASE node.kind = "PropertyAccessExpression" -> node.children[2].text
      [] node.kind = "CallExpression" -> ")"
      [] node.kind = "ParenthesizedExpression" -> ")"
      [] OTHER -> Undefined

RECURSIVE NodeAt(_, _)
NodeAt(root, path) ==
    IF path = <<>> THEN root
    ELSE NodeAt(root.children[Head(path)], Tail(path))

Parent(path) == SubSeq(path, 1, Len(path) - 1)

(***************************************************************************)
(* The type checker: answers about a type, keyed by its typeToString text. *)
(***************************************************************************)
isArrayType(type) == type \in {"number[]", "Item[]", "Order[]", "readonly number[]"}

isTupleType(type) == type \in {"[number, number]"}

HasNumberIndexType(type) == isArrayType(type) \/ isTupleType(type)

(***************************************************************************)
(* Walk state: the two closure variables of convertExpressionToODataString *)
(* and whether an Error has been thrown out of the walk.                   *)
(***************************************************************************)
WalkState(odataFilter, lambdaParameter) ==
    [odataFilter |-> odataFilter, lambdaParameter |-> lambdaParameter, threw |-> FALSE]

\* the value standing for "throw new Error(...)" in a token function
Thrown == "<Error>"

\* odataFilter += s, where computing s may have thrown
Emit(st, s) ==
    IF s = Thrown THEN [st EXCEPT !.threw = TRUE]
    ELSE [st EXCEPT !.odataFilter = @ \o s]

\* getNestedPropertyName that always writes the identifier the chain starts at
RECURSIVE getNestedPropertyNameWithRoot(_, _, _)
getNestedPropertyNameWithRoot(node, lambdaParameter, includeIdentifier) ==
    IF node.kind = "PropertyAccessExpression"
    THEN LET parentName == getNestedPropertyNameWithRoot(node.children[1], lambdaParameter,
                                                         includeIdentifier)
         IN  IF parentName # "" THEN parentName \o "/" \o node.children[2].text
             ELSE node.children[2].text
    ELSE IF node.kind = "Identifier"
    THEN node.text
    ELSE ""

RECURSIVE getNestedPropertyName(_, _, _)
getNestedPropertyName(node, lambdaParameter, includeIdentifier) ==
    IF node.kind = "PropertyAccessExpression"
    THEN LET parentName == getNestedPropertyName(node.children[1], lambdaParameter,
                                                 includeIdentifier)
         IN  IF parentName # "" THEN parentName \o "/" \o node.children[2].text
             ELSE node.children[2].text
    ELSE IF node.kind = "Identifier"
    THEN IF includeIdentifier THEN node.text ELSE ""
    ELSE ""

binaryOperatorKinds ==
    { "GreaterThanToken", "GreaterThanEqualsToken", "LessThanToken",
      "LessThanEqualsToken", "EqualsEqualsToken", "EqualsEqualsEqualsToken",
      "ExclamationEqualsToken", "ExclamationEqualsEqualsToken",
      "AmpersandAmpersandToken", "BarBarToken", "OpenParenToken",
      "CloseParenToken", "ExclamationToken" }

\* processBinaryOperator with the strict operators taken for bitwise-style
\* tokens of their own: only == and != are collapsed to eq and ne
processBinaryOperatorStrictKept(node) ==
    CASE node.kind = "GreaterThanToken" -> "gt"
      [] node.kind = "GreaterThanEqualsToken" -> "ge"
      [] node.kind = "LessThanToken" -> "lt"
      [] node.kind = "LessThanEqualsToken" -> "le"
      [] node.kind = "EqualsEqualsToken" -> "eq"
      [] node.kind = "EqualsEqualsEqualsToken" -> "seq"
      [] node.kind = "ExclamationEqualsToken" -> "ne"
      [] node.kind = "ExclamationEqualsEqualsToken" -> "sne"
      [] node.kind = "AmpersandAmpersandToken" -> "and"
      [] node.kind = "BarBarToken" -> "or"
      [] node.kind = "OpenParenToken" -> "("
      [] node.kind = "CloseParenToken" -> ")"
      [] node.kind = "ExclamationToken" -> "not"
      [] OTHER -> Thrown

processBinaryOperator(node) ==
    CASE node.kind = "GreaterThanToken" -> "gt"
      [] node.kind = "GreaterThanEqualsToken" -> "ge"
      [] node.kind = "LessThanToken" -> "lt"
      [] node.kind = "LessThanEqualsToken" -> "le"
      [] node.kind \in {"EqualsEqualsToken", "EqualsEqualsEqualsToken"} -> "eq"
      [] node.kind \in {"ExclamationEqualsToken", "ExclamationEqualsEqualsToken"} -> "ne"
      [] node.kind = "AmpersandAmpersandToken" -> "and"
      [] node.kind = "BarBarToken" -> "or"
      [] node.kind = "OpenParenToken" -> "("
      [] node.kind = "CloseParenToken" -> ")"
      [] node.kind = "ExclamationToken" -> "not"
      [] OTHER -> Thrown

arithmeticOperatorKinds ==
    { "PlusToken", "MinusToken", "AsteriskToken", "SlashToken", "PercentToken" }

processArithmeticOperator(node) ==
    CASE node.kind = "PlusToken" -> "add"
      [] node.kind = "MinusToken" -> "sub"
      [] node.kind = "AsteriskToken" -> "mul"
      [] node.kind = "SlashToken" -> "div"
      [] node.kind = "PercentToken" -> "mod"
      [] OTHER -> Thrown

literalOperatorKinds ==
    { "StringLiteral", "NumericLiteral", "TrueKeyword", "FalseKeyword",
      "NullKeyword", "UndefinedKeyword" }

processLiteralOperator(node) ==
    CASE node.kind = "StringLiteral" -> "'" \o node.text \o "'"
      [] node.kind = "NumericLiteral" -> node.text
      [] node.kind = "TrueKeyword" -> "true"
      [] node.kind = "FalseKeyword" -> "false"
      [] node.kind \in {"NullKeyword", "UndefinedKeyword"} -> "null"
      [] OTHER -> Thrown

\* the loop over currentNode.parent; the root of the paths is lambdaExpression
RECURSIVE nodeIsPartOfExpression(_, _)
nodeIsPartOfExpression(currentPath, lambdaExpression) ==
    IF currentPath = <<>> THEN FALSE
    ELSE IF currentPath = <<Len(lambdaExpression.children)>> THEN TRUE
    ELSE nodeIsPartOfExpression(Parent(currentPath), lambdaExpression)

\* processIdentifier without the test for the identifier undefined
processIdentifierNoUndefined(node, lambdaParameter, parentNode) ==
    IF node.text # lambdaParameter
    THEN IF parentNode.kind # "PropertyAccessExpression"
         THEN IF node.type = "string"
              THEN "'${" \o node.text \o "}'"
              ELSE "${" \o node.text \o "}"
         ELSE ""
    ELSE ""

processIdentifier(node, lambdaParameter, parentNode) ==
    IF node.text = "undefined" THEN "null"
    ELSE IF node.text # lambdaParameter
    THEN IF parentNode.kind # "PropertyAccessExpression"
         THEN IF node.type = "string"
              THEN "'${" \o node.text \o "}'"
              ELSE "${" \o node.text \o "}"
         ELSE ""
    ELSE ""

methodCallNames ==
    { "startsWith", "endsWith", "substring", "toLowerCase", "toLocaleLowerCase",
      "toUpperCase", "toLocaleUpperCase", "trim", "includes", "indexOf" }

\* processMethodCall that writes the arguments before the property
processMethodCallArgsFirst(methodName, propertyName, args) ==
    CASE methodName = "startsWith" -> "startswith(" \o args \o ", " \o propertyName \o ")"
      [] methodName = "endsWith" -> "endswith(" \o args \o ", " \o propertyName \o ")"
      [] methodName = "includes" -> args \o " in (" \o propertyName \o ")"
      [] methodName = "indexOf" -> "indexof(" \o args \o ", " \o propertyName \o ")"
      [] methodName = "substring" -> "substring(" \o args \o ", " \o propertyName \o ")"
      [] methodName \in {"toLowerCase", "toLocaleLowerCase"} ->
            "tolower(" \o propertyName \o ")"
      [] methodName \in {"toUpperCase", "toLocaleUpperCase"} ->
            "toupper(" \o propertyName \o ")"
      [] methodName = "trim" -> "trim(" \o propertyName \o ")"
      [] OTHER -> Thrown

processMethodCall(methodName, propertyName, args) ==
    CASE methodName = "startsWith" -> "startswith(" \o propertyName \o ", " \o args \o ")"
      [] methodName = "endsWith" -> "endswith(" \o propertyName \o ", " \o args \o ")"
      [] methodName = "includes" -> args \o " in (" \o propertyName \o ")"
      [] methodName = "indexOf" -> "indexof(" \o propertyName \o ", " \o args \o ")"
      [] methodName = "substring" -> "substring(" \o propertyName \o ", " \o args \o ")"
      [] methodName \in {"toLowerCase", "toLocaleLowerCase"} ->
            "tolower(" \o propertyName \o ")"
      [] methodName \in {"toUpperCase", "toLocaleUpperCase"} ->
            "toupper(" \o propertyName \o ")"
      [] methodName = "trim" -> "trim(" \o propertyName \o ")"
      [] OTHER -> Thrown

collectionFunctionNames == { "some", "every" }

getCollectionFunction(functionName) ==
    CASE functionName = "some" -> "any"
      [] functionName = "every" -> "all"
      [] OTHER -> Thrown

(***************************************************************************)
(* visitNode: the visitor closure of convertExpressionToODataString.       *)
(* st holds odataFilter and lambdaParameter on entry, the value is the     *)
(* state on return.  forEachChild(node, cb) is the fold of cb over         *)
(* node.children.                                                          *)
(***************************************************************************)
RECURSIVE visitNode(_, _, _, _, _)
RECURSIVE forEachChild(_, _, _, _, _, _)

\* the prefix-unary branch without its rule for !: the operand is walked
VisitPrefixUnaryWalked(expression, path, node, includeIdentifier, st) ==
    forEachChild(expression, path, 1, node, includeIdentifier, st)

\* ![expression]
VisitPrefixUnary(expression, path, node, includeIdentifier, st) ==
    IF node.text = "!"
    THEN LET inner == visitNode(expression, path \o <<1>>, node, includeIdentifier,
                                [st EXCEPT !.odataFilter = ""])
         IN  [inner EXCEPT !.odataFilter = st.odataFilter \o "not " \o inner.odataFilter]
    ELSE forEachChild(expression, path, 1, node, includeIdentifier, st)

VisitParenthesized(expression, path, node, includeIdentifier, st) ==
    LET inner == visitNode(expression, path \o <<1>>, node, includeIdentifier,
                           Emit(st, "("))
    IN  Emit(inner, ")")

\* the property-access branch that takes every receiver of .length for a string
VisitPropertyAccessAsString(node, includeIdentifier, st) ==
    LET object == node.children[1]
        property == node.children[2]
    IN  IF property.text = "length"
        THEN Emit(st, "length(" \o getNestedPropertyName(object, st.lambdaParameter,
                                                          includeIdentifier) \o ")")
        ELSE IF object.kind = "Identifier" /\ object.text = st.lambdaParameter
             THEN IF includeIdentifier
                  THEN Emit(st, st.lambdaParameter \o "/" \o property.text)
                  ELSE Emit(st, property.text)
             ELSE Emit(st, getNestedPropertyName(node, st.lambdaParameter,
                                                 includeIdentifier))

VisitPropertyAccess(node, includeIdentifier, st) ==
    LET object == node.children[1]
        property == node.children[2]
    IN  IF property.text = "length"
        THEN LET objectText == getNestedPropertyName(object, st.lambdaParameter,
                                                     includeIdentifier)
                 isArray == \/ HasNumberIndexType(object.type)
                            \/ isArrayType(object.type)
                            \/ isTupleType(object.type)
                 isString == IF object.type = "string" THEN TRUE ELSE ~isArray
             IN  IF isString
                 THEN Emit(st, "length(" \o objectText \o ")")
                 ELSE Emit(st, objectText \o "/$count")
        ELSE IF object.kind = "Identifier" /\ object.text = st.lambdaParameter
             THEN IF includeIdentifier
                  THEN Emit(st, st.lambdaParameter \o "/" \o property.text)
                  ELSE Emit(st, property.text)
             ELSE Emit(st, getNestedPropertyName(node, st.lambdaParameter,
                                                 includeIdentifier))

VisitIdentifier(expression, path, node, parentNode, st) ==
    IF nodeIsPartOfExpression(path, expression)
    THEN Emit(st, processIdentifier(node, st.lambdaParameter, parentNode))
    ELSE st

\* the quantifier branch without its last line: lambdaParameter is left at the
\* name of the inner parameter
VisitCollectionFunctionNoRestore(expression, path, node, methodName, includeIdentifier, st) ==
    LET propertyAccess == node.children[1]
        collectionName == getNestedPropertyName(propertyAccess.children[1],
                                                st.lambdaParameter, includeIdentifier)
    IN  IF Len(node.children) < 2
        THEN [st EXCEPT !.threw = TRUE]
        ELSE
        LET internalLambdaExpression == node.children[2]
            lambdaPath == path \o <<2>>
        IN  IF internalLambdaExpression.kind \in {"ArrowFunction", "FunctionExpression"}
            THEN IF internalLambdaExpression.children[1].kind # "Parameter"
                 THEN [st EXCEPT !.threw = TRUE]
                 ELSE
                 LET newLambdaParameter ==
                         getText(internalLambdaExpression.children[1].children[1])
                     bodyPath == lambdaPath \o <<Len(internalLambdaExpression.children)>>
                     inner == forEachChild(expression, bodyPath, 1, UndefinedNode, TRUE,
                                           [st EXCEPT !.odataFilter = "",
                                                      !.lambdaParameter = newLambdaParameter])
                     collectionFunction == getCollectionFunction(methodName)
                 IN  IF inner.threw \/ collectionFunction = Thrown
                     THEN [inner EXCEPT !.threw = TRUE]
                     ELSE [inner EXCEPT
                             !.odataFilter = st.odataFilter \o collectionName \o "/"
                                 \o collectionFunction \o "(" \o inner.lambdaParameter
                                 \o ": " \o inner.odataFilter \o ")"]
            ELSE forEachChild(expression, path, 1, node, includeIdentifier, st)

\* items.some(i => ...), items.every(i => ...)
VisitCollectionFunction(expression, path, node, methodName, includeIdentifier, st) ==
    LET propertyAccess == node.children[1]
        collectionName == getNestedPropertyName(propertyAccess.children[1],
                                                st.lambdaParameter, includeIdentifier)
    IN  IF Len(node.children) < 2
        THEN [st EXCEPT !.threw = TRUE]
        ELSE
        LET internalLambdaExpression == node.children[2]
            lambdaPath == path \o <<2>>
        IN  IF internalLambdaExpression.kind \in {"ArrowFunction", "FunctionExpression"}
            THEN IF internalLambdaExpression.children[1].kind # "Parameter"
                 THEN [st EXCEPT !.threw = TRUE]
                 ELSE
                 LET newLambdaParameter ==
                         getText(internalLambdaExpression.children[1].children[1])
                     bodyPath == lambdaPath \o <<Len(internalLambdaExpression.children)>>
                     inner == forEachChild(expression, bodyPath, 1, UndefinedNode, TRUE,
                                           [st EXCEPT !.odataFilter = "",
                                                      !.lambdaParameter = newLambdaParameter])
                     collectionFunction == getCollectionFunction(methodName)
                 IN  IF inner.threw \/ collectionFunction = Thrown
                     THEN [inner EXCEPT !.threw = TRUE]
                     ELSE [inner EXCEPT
                             !.odataFilter = st.odataFilter \o collectionName \o "/"
                                 \o collectionFunction \o "(" \o inner.lambdaParameter
                                 \o ": " \o inner.odataFilter \o ")",
                             !.lambdaParameter = st.lambdaParameter]
            ELSE forEachChild(expression, path, 1, node, includeIdentifier, st)

VisitCallExpression(expression, path, node, includeIdentifier, st) ==
    LET callee == node.children[1]
        methodName == LastTokenText(callee)
        args == Join([i \in 1..(Len(node.children) - 1) |-> getText(node.children[i + 1])],
                     ", ")
    IN  IF methodName \in collectionFunctionNames
        THEN VisitCollectionFunction(expression, path, node, methodName,
                                     includeIdentifier, st)
        ELSE IF callee.kind = "PropertyAccessExpression"
        THEN LET propertyName == getNestedPropertyName(callee.children[1],
                                                       st.lambdaParameter, includeIdentifier)
             IN  IF methodName # Undefined /\ methodName \in methodCallNames
                 THEN Emit(st, processMethodCall(methodName, propertyName, args))
                 ELSE forEachChild(expression, path, 1, node, includeIdentifier, st)
        ELSE Emit(st, "${" \o getText(callee) \o "(" \o args \o ")}")

visitNode(expression, path, parentNode, includeIdentifier, st) ==
    LET node == NodeAt(expression, path)
    IN  IF st.threw THEN st
        ELSE IF node.kind \in binaryOperatorKinds
        THEN Emit(st, IF processBinaryOperator(node) = Thrown THEN Thrown
                      ELSE " " \o processBinaryOperator(node) \o " ")
        ELSE IF node.kind \in arithmeticOperatorKinds
        THEN Emit(st, IF processArithmeticOperator(node) = Thrown THEN Thrown
                      ELSE " " \o processArithmeticOperator(node) \o " ")
        ELSE IF node.kind \in literalOperatorKinds
        THEN Emit(st, processLiteralOperator(node))
        ELSE IF node.kind = "PrefixUnaryExpression"
        THEN VisitPrefixUnary(expression, path, node, includeIdentifier, st)
        ELSE IF node.kind = "ParenthesizedExpression"
        THEN VisitParenthesized(expression, path, node, includeIdentifier, st)
        ELSE IF node.kind = "PropertyAccessExpression"
        THEN VisitPropertyAccess(node, includeIdentifier, st)
        ELSE IF node.kind = "Identifier"
        THEN VisitIdentifier(expression, path, node, parentNode, st)
        ELSE IF node.kind = "CallExpression"
        THEN VisitCallExpression(expression, path, node, includeIdentifier, st)
        ELSE forEachChild(expression, path, 1, node, includeIdentifier, st)

\* the children of the node at path, from the i-th on, each given to
\* visitNode(child, parentNode, includeIdentifier)
forEachChild(expression, path, i, parentNode, includeIdentifier, st) ==
    IF i > Len(NodeAt(expression, path).children) THEN st
    ELSE forEachChild(expression, path, i + 1, parentNode, includeIdentifier,
                      visitNode(expression, path \o <<i>>, parentNode,
                                includeIdentifier, st))

convertExpressionToODataString(expression) ==
    LET lambdaParameter ==
            IF expression.kind = "ArrowFunction" /\ expression.children[1].kind = "Parameter"
            THEN getText(expression.children[1].children[1])
            ELSE Undefined
    IN  forEachChild(expression, <<>>, 1, UndefinedNode, FALSE,
                     WalkState("", lambdaParameter))

(***************************************************************************)
(* The inputs: predicates x => body written against the test model         *)
(* (Person, Customer, Order, Item).                                        *)
(***************************************************************************)
Root == "x"

\* the static type of a property, as typeToString prints it
PropType(name) ==
    CASE name \in {"name", "description"} -> "string"
      [] name \in {"age", "currentPrice"} -> "number"
      [] name = "isActive" -> "boolean"
      [] name = "person" -> "Person"
      [] name = "items" -> "Item[]"
      [] name = "orders" -> "Order[]"
      [] name = "historicPrices" -> "number[]"
      [] name = "readonlyPrices" -> "readonly number[]"
      [] name = "range" -> "[number, number]"
      [] name = "length" -> "number"
      [] OTHER -> "any"

\* base.p1.p2...pn
RECURSIVE Chain(_, _)
Chain(base, segs) ==
    IF segs = <<>> THEN base
    ELSE PropertyAccess(Chain(base, SubSeq(segs, 1, Len(segs) - 1)),
                        segs[Len(segs)], PropType(segs[Len(segs)]))

Var(name) == Identifier(name, "any")

ChainProps == {"person", "age"}

ChainSegs == UNION {[1..n -> ChainProps] : n \in 1..MaxChain}

Chains == {Chain(Var(Root), segs) : segs \in ChainSegs}

Literals ==
    { StringLit("Bob", "'"), StringLit("Bob", "\""), NumericLit("15"),
      Token("TrueKeyword"), Token("FalseKeyword"), Token("NullKeyword") }

Externals ==
    { Identifier("undefined", "undefined"), Identifier("num", "number"),
      Identifier("str", "string"),
      Call(Identifier("someFunction", "any"), <<Identifier("num", "number")>>) }

\* receiver.method(arguments)
MethodCall(receiver, method, arguments) ==
    Call(PropertyAccess(receiver, method, "any"), arguments)

StringArgs ==
    { <<StringLit("B", "'")>>, <<StringLit("B", "\"")>> }

MethodCallsOn(receiver) ==
    {MethodCall(receiver, m, a) : m \in {"startsWith", "endsWith", "indexOf", "includes"},
                                  a \in StringArgs}
    \cup {MethodCall(receiver, "substring", a) :
            a \in {<<NumericLit("2")>>, <<NumericLit("1"), NumericLit("2")>>}}
    \cup {MethodCall(receiver, m, <<>>) :
            m \in {"toLowerCase", "toLocaleLowerCase", "toUpperCase",
                   "toLocaleUpperCase", "trim"}}

\* calls of methods that the walker has no rule for
UnlistedCallsOn(receiver) ==
    { MethodCall(receiver, "padStart", <<NumericLit("2")>>),
      MethodCall(receiver, "charAt", <<NumericLit("0")>>) }

Receivers(base) == {Chain(Var(base), <<"name">>), Chain(Var(base), <<"person", "name">>)}

ComparisonKinds ==
    { "GreaterThanToken", "GreaterThanEqualsToken", "LessThanToken",
      "LessThanEqualsToken", "EqualsEqualsToken", "EqualsEqualsEqualsToken",
      "ExclamationEqualsToken", "ExclamationEqualsEqualsToken" }

LogicalKinds == { "AmpersandAmpersandToken", "BarBarToken" }

BitwiseKinds == { "AmpersandToken", "BarToken", "CaretToken" }

OperatorKinds ==
    ComparisonKinds \cup LogicalKinds \cup arithmeticOperatorKinds \cup BitwiseKinds

Operands ==
    Chains \cup Literals \cup Externals
    \cup UNION {MethodCallsOn(r) \cup UnlistedCallsOn(r) : r \in Receivers(Root)}

LeftOperands ==
    { Chain(Var(Root), <<"age">>), Chain(Var(Root), <<"person", "age">>),
      Chain(Var(Root), <<"name">>), NumericLit("15"), Identifier("num", "number"),
      MethodCall(Chain(Var(Root), <<"name">>), "indexOf", <<StringLit("B", "'")>>),
      MethodCall(Chain(Var(Root), <<"name">>), "padStart", <<NumericLit("2")>>) }

RightOperands ==
    { Chain(Var(Root), <<"age">>), NumericLit("15"), StringLit("Bob", "'"),
      Token("NullKeyword"), Token("TrueKeyword"),
      Identifier("undefined", "undefined"),
      Identifier("num", "number"), Identifier("str", "string") }

BinaryBodies ==
    {Binary(l, op, r) : l \in LeftOperands, op \in OperatorKinds, r \in RightOperands}

(***************************************************************************)
(* Quantifiers: collection.some(v => body), collection.every(v => body).   *)
(***************************************************************************)
Quantifier(collection, method, v, body) ==
    Call(PropertyAccess(collection, method, "any"), <<Arrow(v, body)>>)

\* bodies of a quantifier over v whose outer parameter is outer
QuantifierBodies(v, outer) ==
    LET price == Chain(Var(v), <<"currentPrice">>)
        deep == Chain(Var(v), <<"person", "age">>)
    IN  {Binary(l, op, r) : l \in {price, deep}, op \in {"LessThanToken", "EqualsEqualsEqualsToken"},
                            r \in {NumericLit("10"), Identifier("num", "number")}}
        \cup { Binary(Var(v), "GreaterThanToken", NumericLit("10")),
               Binary(NumericLit("10"), "LessThanToken", Var(v)),
               Binary(price, "GreaterThanToken", Chain(Var(outer), <<"age">>)),
               Binary(Chain(Var(v), <<"person">>), "EqualsEqualsToken", Var(outer)),
               Binary(Binary(price, "LessThanToken", NumericLit("10")),
                      "AmpersandAmpersandToken",
                      Binary(deep, "GreaterThanToken", NumericLit("1"))),
               Binary(MethodCall(Chain(Var(v), <<"description">>), "startsWith",
                                 <<StringLit("A", "'")>>),
                      "EqualsEqualsToken", Token("TrueKeyword")),
               Chain(Var(v), <<"isActive">>),
               PrefixUnary("!", Chain(Var(v), <<"isActive">>)),
               Parenthesized(Binary(price, "LessThanToken", NumericLit("10"))),
               MethodCall(Chain(Var(v), <<"description">>), "startsWith",
                          <<StringLit("A", "'")>>) }

Collections(base) ==
    { Chain(Var(base), <<"items">>), Chain(Var(base), <<"person", "items">>) }

InnerQuantifiers(v, outer) ==
    {Quantifier(c, m, "p", b) :
        c \in {Chain(Var(v), <<"historicPrices">>)}, m \in collectionFunctionNames,
        b \in { Binary(Var("p"), "EqualsEqualsToken", NumericLit("11")),
                Binary(Chain(Var("p"), <<"age">>), "GreaterThanToken", NumericLit("1")) }}

\* bodies of a quantifier over v of every kind of root node: a negation, a
\* string-method call, a bare boolean property, a grouping
RootKindBodies(v) ==
    LET isActive == Chain(Var(v), <<"isActive">>)
        cheap == Binary(Chain(Var(v), <<"currentPrice">>), "LessThanToken", NumericLit("10"))
    IN  { PrefixUnary("!", isActive),
          PrefixUnary("!", Parenthesized(cheap)),
          MethodCall(Chain(Var(v), <<"name">>), "startsWith", <<StringLit("A", "'")>>),
          isActive,
          Parenthesized(cheap),
          Binary(cheap, "AmpersandAmpersandToken", PrefixUnary("!", isActive)) }

\* a quantifier that is not itself the body of the outer lambda
ConjunctionsWith(v, outer) ==
    {Binary(q, "AmpersandAmpersandToken",
            Binary(Chain(Var(v), <<"currentPrice">>), "GreaterThanToken", NumericLit("1"))) :
        q \in InnerQuantifiers(v, outer)}

QuantifiersOver(v) ==
    {Quantifier(c, m, v, b) :
        c \in Collections(Root), m \in collectionFunctionNames,
        b \in QuantifierBodies(v, Root) \cup InnerQuantifiers(v, Root)
              \cup ConjunctionsWith(v, Root) \cup RootKindBodies(v)}

Quantifiers == UNION {QuantifiersOver(v) : v \in {"i"}}

(***************************************************************************)
(* Logical combinations, groupings and negations.                          *)
(***************************************************************************)
Atoms ==
    { Binary(Chain(Var(Root), <<"age">>), "GreaterThanEqualsToken", NumericLit("18")),
      Chain(Var(Root), <<"isActive">>),
      Quantifier(Chain(Var(Root), <<"items">>), "some", "i",
                 Binary(Chain(Var("i"), <<"currentPrice">>), "LessThanToken",
                        NumericLit("10"))) }

IsLogical(node) ==
    node.kind = "BinaryExpression" /\ node.children[2].kind \in LogicalKinds

\* a as the operand of a logical operator: the parser yields a logical
\* operand without grouping only on the left of the same operator
LogicalOperand(a, op, isLeft) ==
    IF IsLogical(a) /\ ~(isLeft /\ a.children[2].kind = op) THEN Parenthesized(a) ELSE a

\* a as the operand of !: a binary operand is always grouped
NotOperand(a) == IF a.kind = "BinaryExpression" THEN Parenthesized(a) ELSE a

RECURSIVE Nested(_)
Nested(d) ==
    IF d = 0 THEN Atoms
    ELSE LET sub == Nested(d - 1)
         IN  sub \cup {Binary(LogicalOperand(a, op, TRUE), op, LogicalOperand(b, op, FALSE)) :
                            a \in sub, op \in LogicalKinds, b \in sub}
                 \cup {Parenthesized(a) : a \in sub}
                 \cup {PrefixUnary("!", NotOperand(a)) : a \in sub}
                 \cup {Binary(Chain(Var(Root), <<"age">>), "GreaterThanToken",
                               PrefixUnary("-", NumericLit("5")))}

\* x.historicPrices.includes(123), x.person.name.includes("ob")
IncludesBodies ==
    { MethodCall(Chain(Var(Root), <<"historicPrices">>), "includes", <<NumericLit("123")>>),
      MethodCall(Chain(Var(Root), <<"person", "name">>), "includes", <<StringLit("ob", "\"")>>),
      MethodCall(Chain(Var(Root), <<"name">>), "includes", <<TemplateLit("ob")>>) }

\* receivers of .length, of every kind of static type
LengthReceivers(base) ==
    {Chain(Var(base), segs) :
        segs \in { <<"name">>, <<"person", "name">>, <<"description">>, <<"historicPrices">>,
                   <<"items">>, <<"readonlyPrices">>, <<"range">>, <<"person", "orders">> }}

LengthAccess(receiver) == PropertyAccess(receiver, "length", "number")

LengthBodies ==
    {Binary(LengthAccess(r), op, NumericLit("3")) :
        r \in LengthReceivers(Root), op \in {"EqualsEqualsToken", "GreaterThanToken"}}
    \cup {Quantifier(Chain(Var(Root), <<"orders">>), m, "o",
                     Binary(LengthAccess(r), "GreaterThanToken", NumericLit("1"))) :
            m \in collectionFunctionNames, r \in LengthReceivers("o")}
    \cup {Binary(NumericLit("3"), "LessThanToken", LengthAccess(r)) : r \in LengthReceivers(Root)}

\* literals of every quote style and captured references of every type, as
\* the right operand of a comparison
ReferenceBodies ==
    {Binary(Chain(Var(Root), <<"name">>), op, r) :
        op \in {"EqualsEqualsToken", "ExclamationEqualsEqualsToken"},
        r \in { StringLit("Bob", "\""), StringLit("it's", "\""), TemplateLit("Bob"),
                NumericLit("1.5"), Token("FalseKeyword"),
                TypedCall(Identifier("getName", "any"), <<>>, "string"),
                TypedCall(Identifier("someFunction", "any"),
                          <<Identifier("num", "number")>>, "number"),
                TypedCall(Identifier("concat", "any"),
                          <<Identifier("str", "string"), StringLit("s", "'")>>, "string") }}

\* c.isActive, !c.isActive, c.isActive == true
BooleanBodies ==
    LET flags == { Chain(Var(Root), <<"isActive">>), Chain(Var(Root), <<"person", "isActive">>) }
    IN  flags \cup {PrefixUnary("!", f) : f \in flags}
              \cup {Binary(f, op, b) : f \in flags,
                                       op \in {"EqualsEqualsToken", "EqualsEqualsEqualsToken"},
                                       b \in {Token("TrueKeyword"), Token("FalseKeyword")}}

\* string-method calls whose argument is a captured variable, a property of
\* the parameter or a literal
ArgumentBodies ==
    {MethodCall(Chain(Var(Root), <<"name">>), m, <<a>>) :
        m \in {"startsWith", "endsWith", "includes"},
        a \in { Identifier("prefix", "string"), Identifier("num", "number"),
                Chain(Var(Root), <<"person", "name">>), StringLit("B", "'") }}

\* comparisons with a property of a captured object or of this
CapturedBodies ==
    {Binary(Chain(Var(Root), <<"age">>), op, Chain(captured, segs)) :
        op \in {"GreaterThanToken", "EqualsEqualsEqualsToken"},
        captured \in {Identifier("config", "any"), Token("ThisKeyword")},
        segs \in {<<"minAge">>, <<"limits", "age">>}}

Bodies ==
    Operands \cup BinaryBodies \cup Quantifiers \cup Nested(MaxNest)
    \cup IncludesBodies \cup LengthBodies \cup ReferenceBodies \cup BooleanBodies
    \cup ArgumentBodies \cup CapturedBodies

Predicates == {Arrow(Root, b) : b \in Bodies}

(***************************************************************************)
(* Strings.                                                                *)
(***************************************************************************)
\* String.prototype.includes / string.Contains
Contains(s, sub) ==
    \E i \in 1..(Len(s) - Len(sub) + 1) : SubSeq(s, i, i + Len(sub) - 1) = sub

StartsWith(s, prefix) ==
    Len(prefix) <= Len(s) /\ SubSeq(s, 1, Len(prefix)) = prefix

EndsWith(s, suffix) ==
    Len(suffix) <= Len(s) /\ SubSeq(s, Len(s) - Len(suffix) + 1, Len(s)) = suffix

\* string.Replace(old, new)
RECURSIVE Replace(_, _, _)
Replace(s, old, new) ==
    IF Len(s) < Len(old) THEN s
    ELSE IF SubSeq(s, 1, Len(old)) = old
    THEN new \o Replace(SubSeq(s, Len(old) + 1, Len(s)), old, new)
    ELSE SubSeq(s, 1, 1) \o Replace(SubSeq(s, 2, Len(s)), old, new)

(***************************************************************************)
(* The C# serializer: Serialize hands the expression to the OData client   *)
(* (DataServiceQuery.RequestUri) and reads $filter out of the request URI. *)
(* An expression here is x => x.Name.IndexOf(arg) == comparand; argType    *)
(* tells which overload of IndexOf the call binds to.                      *)
(***************************************************************************)
CsExpressions ==
    [method : {"IndexOf"}, argType : {"string", "char"}, arg : {"b", "B"},
     comparand : {"0", "2"}]
    \cup [method : {"IndexOf"}, argType : {"string"}, arg : {"ob"}, comparand : {"0", "2"}]

\* What the OData client answers for the expression: the $filter value of
\* the request URI, written with or without a space after the comma, or a
\* NotSupportedException for the char overload of IndexOf.
RequestUri(expression) ==
    IF expression.argType = "char"
    THEN {[threw |-> TRUE, filter |-> "", message |-> m] :
            m \in {"The method 'IndexOf' is not supported.",
                   "The expression is not supported."}}
    ELSE {[threw |-> FALSE, message |-> "",
           filter |-> "indexof(Name," \o sep \o "'" \o expression.arg \o "') eq "
                        \o expression.comparand] : sep \in {"", " "}}

HandleSerializeGotchas(message) ==
    IF Contains(message, "IndexOf")
    THEN "The string IndexOf(char) method is unsupported. Please use the IndexOf(string) method instead."
    ELSE message

\* Serialize with a catch block that returns null instead of rethrowing
SerializeSwallowing(answer) ==
    IF answer.threw
    THEN [pc |-> "returned", result |-> "", error |-> ""]
    ELSE [pc |-> "returned", result |-> answer.filter, error |-> ""]

\* Serialize, given the client's answer: the try block returns the filter,
\* the catch block rethrows a NotSupportedException
Serialize(answer) ==
    IF answer.threw
    THEN [pc |-> "threw", result |-> "",
          error |-> "NotSupportedException: " \o HandleSerializeGotchas(answer.message)]
    ELSE [pc |-> "returned", result |-> answer.filter, error |-> ""]

\* SerializeTests.Normalize: the spacing the tests compare filters up to
Normalize(filter) == Replace(Replace(filter, ", ", ","), ": ", ":")

(***************************************************************************)
(* The C# deserializer that builds the lambda itself: Deserialize parses   *)
(* the filter (ODataQueryOptionParser.ParseFilter), binds it to a LINQ     *)
(* expression (FilterBinder.Bind), looks in that expression for the        *)
(* parameter (GetParameterExpression) and compiles a lambda on it.         *)
(***************************************************************************)
\* the nodes of a parsed filter
PropertyAccessNode(path) == Node("SingleValuePropertyAccessNode", Join(path, "/"), "", <<>>)

ConstantNode(text) == Node("ConstantNode", text, "", <<>>)

BinaryOperatorNode(operator, left, right) ==
    Node("BinaryOperatorNode", operator, "", <<left, right>>)

UnaryOperatorNode(operator, operand) == Node("UnaryOperatorNode", operator, "", <<operand>>)

FunctionCallNode(name, arguments) == Node("SingleValueFunctionCallNode", name, "", arguments)

\* the nodes of a LINQ expression
ParameterExpression == Node("ParameterExpression", "$it", "", <<>>)

MemberExpression(expression, member) == Node("MemberExpression", member, "", <<expression>>)

BinaryExpression(nodeType, left, right) == Node("BinaryExpression", nodeType, "", <<left, right>>)

UnaryExpression(nodeType, operand) == Node("UnaryExpression", nodeType, "", <<operand>>)

ConstantExpression(text) == Node("ConstantExpression", text, "", <<>>)

MethodCallExpression(method, arguments) == Node("MethodCallExpression", method, "", arguments)

ConditionalExpression(test, ifTrue, ifFalse) ==
    Node("ConditionalExpression", "", "", <<test, ifTrue, ifFalse>>)

\* $it.P1.P2 for the path P1/P2
RECURSIVE MemberPath(_)
MemberPath(path) ==
    IF path = <<>> THEN ParameterExpression
    ELSE MemberExpression(MemberPath(SubSeq(path, 1, Len(path) - 1)), path[Len(path)])

\* P1/P2 split at the slashes
RECURSIVE SplitPath(_, _)
SplitPath(text, segment) ==
    IF text = "" THEN <<segment>>
    ELSE IF SubSeq(text, 1, 1) = "/"
    THEN <<segment>> \o SplitPath(SubSeq(text, 2, Len(text)), "")
    ELSE SplitPath(SubSeq(text, 2, Len(text)), segment \o SubSeq(text, 1, 1))

\* What FilterBinder.Bind answers for a filter node.  A function call is
\* bound to a method call on the bound arguments, bare or, when null
\* propagation is on, under a test of the receiver against null.
RECURSIVE Bind(_)
Bind(node) ==
    CASE node.kind = "SingleValuePropertyAccessNode" -> {MemberPath(SplitPath(node.text, ""))}
      [] node.kind = "ConstantNode" -> {ConstantExpression(node.text)}
      [] node.kind = "BinaryOperatorNode" ->
            {BinaryExpression(node.text, l, r) :
                l \in Bind(node.children[1]), r \in Bind(node.children[2])}
      [] node.kind = "UnaryOperatorNode" ->
            {UnaryExpression(node.text, e) : e \in Bind(node.children[1])}
      [] node.kind = "SingleValueFunctionCallNode" ->
            LET calls == {MethodCallExpression(node.text, <<a, b>>) :
                            a \in Bind(node.children[1]), b \in Bind(node.children[2])}
            IN  calls \cup
                {ConditionalExpression(
                    BinaryExpression("Equal", c.children[1], ConstantExpression("null")),
                    ConstantExpression("null"),
                    UnaryExpression("Convert", c)) : c \in calls}

NoParameter == Node("null", "", "", <<>>)

InvalidOperation == Node("InvalidOperationException", "Unable to find parameter expression.", "", <<>>)

\* GetParameterExpression that looks into the right operand of a binary
\* expression before the left one
RECURSIVE GetParameterExpressionRightFirst(_, _)
GetParameterExpressionRightFirst(expression, isRoot) ==
    CASE expression.kind = "MemberExpression" ->
            GetParameterExpressionRightFirst(expression.children[1], FALSE)
      [] expression.kind = "BinaryExpression" ->
            LET rightParameter == GetParameterExpressionRightFirst(expression.children[2], FALSE)
            IN  IF rightParameter # NoParameter THEN rightParameter
                ELSE GetParameterExpressionRightFirst(expression.children[1], FALSE)
      [] expression.kind = "ParameterExpression" -> expression
      [] expression.kind = "UnaryExpression" ->
            GetParameterExpressionRightFirst(expression.children[1], FALSE)
      [] OTHER -> IF isRoot THEN InvalidOperation ELSE NoParameter

RECURSIVE GetParameterExpression(_, _)
GetParameterExpression(expression, isRoot) ==
    CASE expression.kind = "MemberExpression" ->
            GetParameterExpression(expression.children[1], FALSE)
      [] expression.kind = "BinaryExpression" ->
            LET leftParameter == GetParameterExpression(expression.children[1], FALSE)
            IN  IF leftParameter # NoParameter THEN leftParameter
                ELSE GetParameterExpression(expression.children[2], FALSE)
      [] expression.kind = "ParameterExpression" -> expression
      [] expression.kind = "UnaryExpression" ->
            GetParameterExpression(expression.children[1], FALSE)
      [] OTHER -> IF isRoot THEN InvalidOperation ELSE NoParameter

\* Deserialize, given the bound expression: the parameter is looked for, and
\* Expression.Lambda refuses a parameter list that holds null
Deserialize(expression) ==
    LET parameter == GetParameterExpression(expression, TRUE)
    IN  IF parameter = InvalidOperation
        THEN [pc |-> "threw", result |-> "",
              error |-> "InvalidOperationException: " \o InvalidOperation.text]
        ELSE IF parameter = NoParameter
        THEN [pc |-> "threw", result |-> "", error |-> "ArgumentNullException: parameters"]
        ELSE [pc |-> "returned", result |-> "Func<T, bool>(" \o parameter.text \o ")",
              error |-> ""]

\* a parameter other than $it: parameters are told apart by reference
ParameterNamed(name) == Node("ParameterExpression", name, "", <<>>)

\* expressions the search is run on: parameters, constants and calls under
\* member accesses, conversions and binary expressions, two levels deep
SearchTrees ==
    LET leaves == { ParameterExpression, ParameterNamed("$that"), ConstantExpression("20") }
        level1 == leaves
                  \cup {MemberExpression(e, "Name") : e \in leaves}
                  \cup {UnaryExpression("Convert", e) : e \in leaves}
                  \cup {MethodCallExpression("startswith", <<MemberExpression(e, "Name"),
                                                               ConstantExpression("'A'")>>) :
                            e \in leaves \ {ConstantExpression("20")}}
    IN  level1
        \cup {BinaryExpression("Equal", l, r) : l \in level1, r \in level1}
        \cup {UnaryExpression("Not", BinaryExpression("Equal", l, r)) :
                l \in level1, r \in leaves}
        \cup {BinaryExpression("AndAlso", BinaryExpression("Equal", l, ConstantExpression("20")),
                                BinaryExpression("Equal", r, ConstantExpression("20"))) :
                l \in level1, r \in level1}

\* the filters of the deserializer tests and their combinations
FilterAtoms ==
    {BinaryOperatorNode(op, PropertyAccessNode(<<"Age">>), ConstantNode(n)) :
        op \in {"GreaterThan", "LessThan", "NotEqual"}, n \in {"20", "18"}}
    \cup {BinaryOperatorNode("Equal", PropertyAccessNode(path), ConstantNode("'Bob'")) :
            path \in {<<"Name">>, <<"Person", "Name">>}}
    \cup {BinaryOperatorNode("LessThan", ConstantNode("20"), PropertyAccessNode(<<"Age">>))}
    \cup {FunctionCallNode(f, <<PropertyAccessNode(path), ConstantNode("'A'")>>) :
            f \in {"startswith", "endswith", "contains"},
            path \in {<<"Name">>, <<"Person", "Name">>}}

Filters ==
    FilterAtoms
    \cup {BinaryOperatorNode(op, l, r) :
            op \in {"And", "Or"}, l \in FilterAtoms, r \in FilterAtoms}
    \cup {UnaryOperatorNode("Not", a) : a \in FilterAtoms}

(***************************************************************************)
(* ExpressionToFunc: the compiler of the predicate of the newest C#        *)
(* deserializer.  A type is its name; a delegate type is a record of the   *)
(* generic delegate, its parameter type and its return type.               *)
(***************************************************************************)
DelegateType(delegate, parameter, return) ==
    [delegate |-> delegate, parameter |-> parameter, return |-> return]

\* the types a type can be assigned to: itself, its base classes, object
AssignableTo(type) ==
    CASE type = "DerivedProduct" -> {"DerivedProduct", "Product", "object"}
      [] type \in {"Product", "Person", "object"} -> {type, "object"}
      [] OTHER -> {type}

\* typeof(Func<T, bool>).IsAssignableFrom(type): the same generic delegate,
\* the parameter contravariant (T is a class), the return type bool itself
\* (no variance on a value type)
IsAssignableFrom(T, type) ==
    /\ type.delegate = "Func"
    /\ type.parameter \in AssignableTo(T)
    /\ type.return = "bool"

\* a lambda expression of the delegate type type
LambdaExpression(type) == Node("LambdaExpression", "", type, <<>>)

\* ExpressionToFunc without its second test: a lambda of another delegate
\* type reaches the cast of the compiled delegate
ExpressionToFuncUnchecked(T, expression) ==
    IF expression.kind # "LambdaExpression"
    THEN [pc |-> "threw", result |-> "",
          error |-> "InvalidOperationException: The provided expression is not a lambda expression."]
    ELSE IF ~IsAssignableFrom(T, expression.type)
    THEN [pc |-> "threw", result |-> "", error |-> "InvalidCastException"]
    ELSE [pc |-> "returned", result |-> "Func<" \o T \o ", bool>", error |-> ""]

ExpressionToFunc(T, expression) ==
    IF expression.kind # "LambdaExpression"
    THEN [pc |-> "threw", result |-> "",
          error |-> "InvalidOperationException: The provided expression is not a lambda expression."]
    ELSE IF ~IsAssignableFrom(T, expression.type)
    THEN [pc |-> "threw", result |-> "",
          error |-> "InvalidOperationException: The lambda expression does not match the required delegate type 'Func<T, bool>'."]
    ELSE [pc |-> "returned", result |-> "Func<" \o T \o ", bool>", error |-> ""]

\* the expressions ExpressionToFunc<T> is given: lambdas of every delegate
\* type, and expressions that are no lambda
ExpressionToFuncCalls ==
    LET types == {"Person", "Product", "DerivedProduct"}
        lambdas == {LambdaExpression(DelegateType(d, a, r)) :
                        d \in {"Func", "Predicate", "Converter"},
                        a \in types \cup {"object"}, r \in {"bool", "bool?", "int", "object"}}
        others == { ParameterExpression, ConstantExpression("true"),
                    BinaryExpression("GreaterThan", MemberExpression(ParameterExpression, "Age"),
                                     ConstantExpression("20")) }
    IN  {[T |-> T, expression |-> e] : T \in types, e \in lambdas \cup others}

(***************************************************************************)
(* The compile-time transformer.  A source file is a SourceFile node whose *)
(* children are its statements: import declarations and calls.             *)
(***************************************************************************)
MODULE_NAME == "expression-serializer-ts"

METHOD_NAME == "serializeExpression"

\* serializeImportedAs before any import was seen
Null == "<null>"

\* import * as name from 'module'
NamespaceImport(name) == Node("NamespaceImport", name, "", <<>>)

\* name, or propertyName as name, in the braces of an import
ImportSpecifier(propertyName, name) ==
    IF propertyName = name
    THEN Node("ImportSpecifier", "", "", <<Identifier(name, "any")>>)
    ELSE Node("ImportSpecifier", "", "", <<Identifier(propertyName, "any"), Identifier(name, "any")>>)

NamedImports(elements) == Node("NamedImports", "", "", elements)

\* import namedBindings from 'moduleSpecifier'
ImportDeclaration(namedBindings, moduleSpecifier) ==
    Node("ImportDeclaration", moduleSpecifier, "", <<namedBindings>>)

SourceFile(statements) == Node("SourceFile", "", "", statements)

\* getFullPath leaves a path that is not relative as it is
isSerializeExpressionFunctionImport(importDeclaration) ==
    Contains(importDeclaration.text, MODULE_NAME)

\* namedBindings.elements.forEach(...), from the i-th element on
RECURSIVE NamedImportsAlias(_, _, _)
NamedImportsAlias(elements, i, serializeImportedAs) ==
    IF i > Len(elements) THEN serializeImportedAs
    ELSE LET element == elements[i]
             name == element.children[Len(element.children)].text
             propertyName == IF Len(element.children) = 2 THEN element.children[1].text
                             ELSE Undefined
         IN  NamedImportsAlias(elements, i + 1,
                               IF propertyName = METHOD_NAME \/ name = METHOD_NAME
                               THEN name ELSE serializeImportedAs)

\* the visitor on an import of the module: serializeImportedAs afterwards
VisitImportDeclaration(node, serializeImportedAs) ==
    IF node.children = <<>> THEN serializeImportedAs
    ELSE LET namedBindings == node.children[1]
             afterNamespace == IF namedBindings.kind = "NamespaceImport"
                               THEN namedBindings.text ELSE serializeImportedAs
         IN  IF namedBindings.kind = "NamedImports"
             THEN NamedImportsAlias(namedBindings.children, 1, afterNamespace)
             ELSE afterNamespace

isSerializeExpressionCall(node, serializeImportedAs) ==
    IF node.kind # "CallExpression" THEN FALSE
    ELSE LET expression == node.children[1]
         IN  IF expression.kind = "Identifier"
             THEN expression.text = serializeImportedAs
             ELSE IF /\ expression.kind = "PropertyAccessExpression"
                     /\ expression.children[2].kind = "Identifier"
             THEN /\ expression.children[2].text = METHOD_NAME
                  /\ expression.children[1].kind = "Identifier"
                  /\ expression.children[1].text = serializeImportedAs
             ELSE FALSE

createTemplateLiteral(str) ==
    IF ~Contains(str, "${")
    THEN TemplateLit(str)
    ELSE Node("TemplateExpression", str, GraveAccent, <<>>)

\* what the visitor hands back: the node in place of the one it was given,
\* serializeImportedAs afterwards, and whether it threw
Visited(node, serializeImportedAs, threw) ==
    [node |-> node, serializeImportedAs |-> serializeImportedAs, threw |-> threw]

RECURSIVE visitor(_, _)
RECURSIVE visitEachChild(_, _, _, _)
visitor(node, serializeImportedAs) ==
    LET importedAs == IF /\ node.kind = "ImportDeclaration"
                         /\ isSerializeExpressionFunctionImport(node)
                      THEN VisitImportDeclaration(node, serializeImportedAs)
                      ELSE serializeImportedAs
    IN  IF isSerializeExpressionCall(node, importedAs)
        THEN IF Len(node.children) >= 2 /\ node.children[2].kind = "ArrowFunction"
             THEN LET st == convertExpressionToODataString(node.children[2])
                  IN  Visited(createTemplateLiteral(st.odataFilter), importedAs, st.threw)
             ELSE Visited(node, importedAs, TRUE)
        ELSE visitEachChild(node, 1, importedAs, <<>>)

\* the children of node from the i-th on are given to the visitor; done holds
\* what the visitor handed back for the children before
visitEachChild(node, i, serializeImportedAs, done) ==
    IF i > Len(node.children)
    THEN Visited([node EXCEPT !.children = done], serializeImportedAs, FALSE)
    ELSE LET child == visitor(node.children[i], serializeImportedAs)
         IN  IF child.threw THEN Visited(node, child.serializeImportedAs, TRUE)
             ELSE visitEachChild(node, i + 1, child.serializeImportedAs,
                                 Append(done, child.node))

\* the text of the statements of a source file that are not imports
StatementsText(sourceFile) ==
    LET calls == SelectSeq(sourceFile.children, LAMBDA n : n.kind # "ImportDeclaration")
    IN  Join([i \in 1..Len(calls) |->
                IF calls[i].kind = "TemplateExpression"
                THEN calls[i].type \o calls[i].text \o calls[i].type
                ELSE getText(calls[i])], "; ")

serializeExpressionTransformer(sourceFile) ==
    LET out == visitor(sourceFile, Null)
    IN  IF out.threw
        THEN [pc |-> "threw", result |-> "",
              error |-> "Error: Called a serializeExpression function, but the first argument was not an ArrowFunction."]
        ELSE [pc |-> "returned", result |-> StatementsText(out.node), error |-> ""]

\* the imports a file may hold: the function under its name or under an
\* alias, the module under an alias, another export of the module, and
\* a function of another module
ImportDeclarations ==
    { ImportDeclaration(NamedImports(<<ImportSpecifier(METHOD_NAME, METHOD_NAME)>>), MODULE_NAME),
      ImportDeclaration(NamedImports(<<ImportSpecifier(METHOD_NAME, "se")>>), MODULE_NAME),
      ImportDeclaration(NamespaceImport("ES"), MODULE_NAME),
      ImportDeclaration(NamedImports(<<ImportSpecifier("convertExpressionToODataString", "convert")>>),
                        MODULE_NAME),
      ImportDeclaration(NamedImports(<<ImportSpecifier("get", "get")>>), "lodash") }

\* the names an import declares in the file
LocalNames(importDeclaration) ==
    LET namedBindings == importDeclaration.children[1]
    IN  IF namedBindings.kind = "NamespaceImport" THEN {namedBindings.text}
        ELSE {namedBindings.children[i].children[Len(namedBindings.children[i].children)].text :
                i \in 1..Len(namedBindings.children)}

\* the calls of a file, on the one predicate of the transformer's tests
CallStatements ==
    LET lambda == Arrow(Root, Binary(Chain(Var(Root), <<"age">>), "GreaterThanToken",
                                     NumericLit("10")))
    IN  {Call(callee, <<lambda>>) :
            callee \in { Identifier(METHOD_NAME, "any"), Identifier("se", "any"),
                         PropertyAccess(Identifier("ES", "any"), METHOD_NAME, "any"),
                         Identifier("convert", "any"), Identifier("get", "any") }}
        \cup {Call(Identifier("se", "any"), <<Identifier("predicate", "any")>>)}

\* files that compile: at most MaxStatements imports, no name imported twice,
\* then one to MaxStatements calls, each of a name the file imports
SourceFiles ==
    LET imports == UNION {[1..n -> ImportDeclarations] : n \in 0..MaxStatements}
        calls == UNION {[1..n -> CallStatements] : n \in 1..MaxStatements}
        declared(is) == UNION {LocalNames(is[i]) : i \in 1..Len(is)}
        callee(c) == IF c.children[1].kind = "Identifier" THEN c.children[1].text
                     ELSE c.children[1].children[1].text
    IN  {SourceFile(f[1] \o f[2]) :
            f \in {f \in imports \X calls :
                     /\ \A i, j \in 1..Len(f[1]) :
                           i # j => LocalNames(f[1][i]) \cap LocalNames(f[1][j]) = {}
                     /\ \A i \in 1..Len(f[2]) : callee(f[2][i]) \in declared(f[1])}}

(***************************************************************************)
(* serializeExpression, the function the compile-time transformer replaces *)
(* the calls of.  What is left of it at run time only throws.              *)
(***************************************************************************)
\* serializeExpression that hands back an empty string
serializeExpressionReturning(expression) ==
    [pc |-> "returned", result |-> "", error |-> ""]

serializeExpression(expression) ==
    [pc |-> "threw", result |-> "",
     error |-> "Error: This function is intended to be replaced during compile-time, and should not exist at runtime."]

\* arguments of a run-time call: predicates, and a value that is no lambda
RuntimeArguments == {Arrow(Root, b) : b \in Nested(MaxNest) \cup Operands} \cup {UndefinedNode}

(***************************************************************************)
(* The state machine: one call of one of the entry points.  call is the    *)
(* entry point and its argument, pc tells whether the call is still to     *)
(* run, has returned (result) or has thrown (error).                       *)
(***************************************************************************)
Calls ==
    {[fn |-> "convertExpressionToODataString", arg |-> p] : p \in Predicates}
    \cup {[fn |-> "Serialize", arg |-> e] : e \in CsExpressions}
    \cup {[fn |-> "serializeExpression", arg |-> a] : a \in RuntimeArguments}
    \cup {[fn |-> "Deserialize", arg |-> f] : f \in Filters}
    \cup {[fn |-> "serializeExpressionTransformer", arg |-> f] : f \in SourceFiles}
    \cup {[fn |-> "GetParameterExpression", arg |-> e] : e \in SearchTrees}
    \cup {[fn |-> "ExpressionToFunc", arg |-> a] : a \in ExpressionToFuncCalls}

Init ==
    /\ call \in Calls
    /\ pc = "called"
    /\ result = ""
    /\ error = ""
    /\ walks = <<>>
    /\ closures = <<>>

CallConvertExpressionToODataString ==
    /\ pc = "called"
    /\ call.fn = "convertExpressionToODataString"
    /\ LET st == convertExpressionToODataString(call.arg)
       IN  IF st.threw
           THEN pc' = "threw" /\ result' = "" /\ error' = "Error"
           ELSE pc' = "returned" /\ result' = st.odataFilter /\ error' = ""
    /\ UNCHANGED <<call, walks, closures>>

CallSerialize ==
    /\ pc = "called"
    /\ call.fn = "Serialize"
    /\ \E answer \in RequestUri(call.arg) :
          LET out == Serialize(answer)
          IN  pc' = out.pc /\ result' = out.result /\ error' = out.error
    /\ UNCHANGED <<call, walks, closures>>

CallSerializeExpression ==
    /\ pc = "called"
    /\ call.fn = "serializeExpression"
    /\ LET out == serializeExpression(call.arg)
       IN  pc' = out.pc /\ result' = out.result /\ error' = out.error
    /\ UNCHANGED <<call, walks, closures>>

CallDeserialize ==
    /\ pc = "called"
    /\ call.fn = "Deserialize"
    /\ \E expression \in Bind(call.arg) :
          LET out == Deserialize(expression)
          IN  pc' = out.pc /\ result' = out.result /\ error' = out.error
    /\ UNCHANGED <<call, walks, closures>>

CallSerializeExpressionTransformer ==
    /\ pc = "called"
    /\ call.fn = "serializeExpressionTransformer"
    /\ LET out == serializeExpressionTransformer(call.arg)
       IN  pc' = out.pc /\ result' = out.result /\ error' = out.error
    /\ UNCHANGED <<call, walks, closures>>

\* GetParameterExpression(expression): isRoot has its default, true
CallGetParameterExpression ==
    /\ pc = "called"
    /\ call.fn = "GetParameterExpression"
    /\ LET parameter == GetParameterExpression(call.arg, TRUE)
       IN  IF parameter = InvalidOperation
           THEN /\ pc' = "threw"
                /\ result' = ""
                /\ error' = "InvalidOperationException: " \o InvalidOperation.text
           ELSE /\ pc' = "returned"
                /\ result' = parameter.text
                /\ error' = ""
    /\ UNCHANGED <<call, walks, closures>>

CallExpressionToFunc ==
    /\ pc = "called"
    /\ call.fn = "ExpressionToFunc"
    /\ LET out == ExpressionToFunc(call.arg.T, call.arg.expression)
       IN  pc' = out.pc /\ result' = out.result /\ error' = out.error
    /\ UNCHANGED <<call, walks, closures>>

Next ==
    \/ CallConvertExpressionToODataString
    \/ CallSerialize
    \/ CallSerializeExpression
    \/ CallDeserialize
    \/ CallSerializeExpressionTransformer
    \/ CallGetParameterExpression
    \/ CallExpressionToFunc

Spec == Init /\ [][Next]_vars

(***************************************************************************)
(* Interleaved calls of convertExpressionToODataString.  The walk of a     *)
(* call is cut into its steps: one step is one execution of a branch of    *)
(* visitNode up to the next call of visitNode or forEachChild, or the      *)
(* code after such a call returns.  stack holds what a call has still to   *)
(* do, innermost first.  closures[k] holds the variables odataFilter and   *)
(* lambdaParameter of the closure k; walks[c] is the call of caller c.     *)
(***************************************************************************)
Callers == {1, 2}

\* a pending visitNode(node at path, parentNode, includeIdentifier), or a
\* pending forEachChild over the children of the node at path from the i-th
Frame(op, path, i, parentNode, includeIdentifier) ==
    [op |-> op, path |-> path, i |-> i, parentNode |-> parentNode,
     includeIdentifier |-> includeIdentifier,
     saved |-> "", collectionName |-> "", methodName |-> "", lambdaParameter |-> ""]

\* the code after an inner walk returns, with the constants it holds
Resume(op, saved, collectionName, methodName, lambdaParameter) ==
    [op |-> op, path |-> <<>>, i |-> 0, parentNode |-> UndefinedNode,
     includeIdentifier |-> FALSE,
     saved |-> saved, collectionName |-> collectionName, methodName |-> methodName,
     lambdaParameter |-> lambdaParameter]

Stepped(st, stack) == [st |-> st, stack |-> stack]

\* visitNode(node at top.path, ...) up to its first inner walk
VisitStep(expression, top, st, rest) ==
    LET node == NodeAt(expression, top.path)
        inc == top.includeIdentifier
        children == Frame("forEachChild", top.path, 1, node, inc)
        operand == Frame("visitNode", top.path \o <<1>>, 0, node, inc)
        methodName == LastTokenText(node.children[1])
    IN  IF node.kind = "PrefixUnaryExpression"
        THEN IF node.text = "!"
             THEN Stepped([st EXCEPT !.odataFilter = ""],
                          <<operand, Resume("not", st.odataFilter, "", "", "")>> \o rest)
             ELSE Stepped(st, <<children>> \o rest)
        ELSE IF node.kind = "ParenthesizedExpression"
        THEN Stepped(Emit(st, "("), <<operand, Resume(")", "", "", "", "")>> \o rest)
        ELSE IF node.kind = "CallExpression" /\ methodName \in collectionFunctionNames
        THEN IF Len(node.children) < 2
             THEN Stepped([st EXCEPT !.threw = TRUE], rest)
             ELSE
             LET internalLambdaExpression == node.children[2]
                 collectionName == getNestedPropertyName(node.children[1].children[1],
                                                         st.lambdaParameter, inc)
             IN  IF internalLambdaExpression.kind \in {"ArrowFunction", "FunctionExpression"}
                 THEN IF internalLambdaExpression.children[1].kind # "Parameter"
                      THEN Stepped([st EXCEPT !.threw = TRUE], rest)
                      ELSE Stepped(
                             [st EXCEPT !.odataFilter = "",
                                        !.lambdaParameter =
                                            getText(internalLambdaExpression.children[1].children[1])],
                             << Frame("forEachChild",
                                      top.path \o <<2, Len(internalLambdaExpression.children)>>,
                                      1, UndefinedNode, TRUE),
                                Resume("lambda", st.odataFilter, collectionName, methodName,
                                       st.lambdaParameter) >> \o rest)
                 ELSE Stepped(st, <<children>> \o rest)
        ELSE IF /\ node.kind = "CallExpression"
                /\ node.children[1].kind = "PropertyAccessExpression"
                /\ ~(methodName # Undefined /\ methodName \in methodCallNames)
        THEN Stepped(st, <<children>> \o rest)
        ELSE IF node.kind \in binaryOperatorKinds \cup arithmeticOperatorKinds
                                \cup literalOperatorKinds
                                \cup {"PropertyAccessExpression", "Identifier", "CallExpression"}
        THEN Stepped(visitNode(expression, top.path, top.parentNode, inc, st), rest)
        ELSE Stepped(st, <<children>> \o rest)

\* one step of the walk of expression
WalkStep(expression, st, stack) ==
    LET top == Head(stack)
        rest == Tail(stack)
    IN  CASE top.op = "forEachChild" ->
                IF top.i > Len(NodeAt(expression, top.path).children)
                THEN Stepped(st, rest)
                ELSE Stepped(st, << Frame("visitNode", top.path \o <<top.i>>, 0,
                                          top.parentNode, top.includeIdentifier),
                                    [top EXCEPT !.i = @ + 1] >> \o rest)
          [] top.op = "visitNode" -> VisitStep(expression, top, st, rest)
          [] top.op = "not" ->
                Stepped([st EXCEPT !.odataFilter = top.saved \o "not " \o @], rest)
          [] top.op = ")" -> Stepped(Emit(st, ")"), rest)
          [] top.op = "lambda" ->
                LET collectionFunction == getCollectionFunction(top.methodName)
                IN  IF collectionFunction = Thrown
                    THEN Stepped([st EXCEPT !.threw = TRUE], rest)
                    ELSE Stepped(
                           [st EXCEPT
                              !.odataFilter = top.saved \o top.collectionName \o "/"
                                  \o collectionFunction \o "(" \o st.lambdaParameter
                                  \o ": " \o st.odataFilter \o ")",
                              !.lambdaParameter = top.lambdaParameter],
                           rest)

\* odataFilter and lambdaParameter declared outside the function: every call
\* works on the same two variables
ClosureOfModule(c) == 1

\* odataFilter and lambdaParameter are declared inside the function: every
\* call has a closure of its own
ClosureOf(c) == c

\* the predicates the interleaved calls are made on
WalkPredicates ==
    LET age == Chain(Var(Root), <<"age">>)
        name == Chain(Var(Root), <<"name">>)
        items == Chain(Var(Root), <<"items">>)
        price == Chain(Var("i"), <<"currentPrice">>)
        old == Binary(age, "GreaterThanToken", NumericLit("15"))
        bob == Binary(name, "EqualsEqualsEqualsToken", StringLit("Bob", "'"))
    IN  {Arrow(Root, b) : b \in
            { Binary(old, "AmpersandAmpersandToken", Parenthesized(bob)),
              PrefixUnary("!", Parenthesized(old)),
              MethodCall(name, "startsWith", <<StringLit("B", "'")>>),
              Binary(bob, "BarBarToken",
                     Quantifier(items, "some", "i",
                                Binary(price, "LessThanToken", NumericLit("10")))),
              Quantifier(items, "every", "i",
                         PrefixUnary("!", Binary(price, "LessThanToken", age))) }}

Walk(expression, walkPc, stack, filter, count, interleaved) ==
    [expression |-> expression, pc |-> walkPc, stack |-> stack, result |-> filter,
     count |-> count, interleaved |-> interleaved]

InitInterleaved ==
    /\ call = [fn |-> "convertExpressionToODataString"]
    /\ pc = "interleaved"
    /\ result = ""
    /\ error = ""
    /\ walks \in [Callers -> {Walk(p, "called", <<>>, "", 1, FALSE) : p \in WalkPredicates}]
    /\ closures = [k \in Callers |-> WalkState("", Undefined)]

\* the call is entered: its variables are initialised and the top-level walk
\* is about to start
Enter(c) ==
    /\ walks[c].pc = "called"
    /\ LET expression == walks[c].expression
           lambdaParameter ==
               IF expression.kind = "ArrowFunction" /\ expression.children[1].kind = "Parameter"
               THEN getText(expression.children[1].children[1])
               ELSE Undefined
       IN  /\ closures' = [closures EXCEPT ![ClosureOf(c)] = WalkState("", lambdaParameter)]
           /\ walks' = [walks EXCEPT
                           ![c].pc = "walking",
                           ![c].stack = <<Frame("forEachChild", <<>>, 1, UndefinedNode, FALSE)>>]
    /\ UNCHANGED <<call, pc, result, error>>

\* one step of the walk of caller c; interleaved records that the step was
\* taken while another call was between its entry and its return
Visit(c) ==
    /\ walks[c].pc = "walking"
    /\ walks[c].stack # <<>>
    /\ LET out == WalkStep(walks[c].expression, closures[ClosureOf(c)], walks[c].stack)
           other == \E d \in Callers \ {c} : walks[d].pc = "walking"
       IN  /\ closures' = [closures EXCEPT ![ClosureOf(c)] = out.st]
           /\ walks' = IF out.st.threw
                       THEN [walks EXCEPT ![c].pc = "threw", ![c].stack = <<>>,
                                          ![c].interleaved = @ \/ other]
                       ELSE [walks EXCEPT ![c].stack = out.stack,
                                          ![c].interleaved = @ \/ other]
    /\ UNCHANGED <<call, pc, result, error>>

\* return odataFilter
Return(c) ==
    /\ walks[c].pc = "walking"
    /\ walks[c].stack = <<>>
    /\ walks' = [walks EXCEPT ![c].pc = "returned",
                              ![c].result = closures[ClosureOf(c)].odataFilter]
    /\ UNCHANGED <<call, pc, result, error, closures>>

\* the caller makes its next call
Invoke(c) ==
    /\ walks[c].pc \in {"returned", "threw"}
    /\ walks[c].count < MaxCalls
    /\ \E p \in WalkPredicates :
          walks' = [walks EXCEPT ![c] = Walk(p, "called", <<>>, "", walks[c].count + 1, FALSE)]
    /\ UNCHANGED <<call, pc, result, error, closures>>

NextInterleaved ==
    \E c \in Callers : Enter(c) \/ Visit(c) \/ Return(c) \/ Invoke(c)

SpecInterleaved == InitInterleaved /\ [][NextInterleaved]_vars

\* the body of the predicate of a walker call
Body == call.arg.children[Len(call.arg.children)]

Returned == call.fn = "convertExpressionToODataString" /\ pc = "returned"

\* the filter the walker returns for x => body
Filter(body) == convertExpressionToODataString(Arrow(Root, body)).odataFilter

(***************************************************************************)
(* Helpers of the properties.                                              *)
(***************************************************************************)
\* node is a member-access chain base.p1...pn, n >= 1, on the identifier base
RECURSIVE IsChainOn(_, _)
IsChainOn(node, base) ==
    /\ node.kind = "PropertyAccessExpression"
    /\ \/ node.children[1].kind = "Identifier" /\ node.children[1].text = base
       \/ IsChainOn(node.children[1], base)

\* <<p1, ..., pn>> of the chain base.p1...pn
RECURSIVE Segments(_)
Segments(node) ==
    IF node.kind = "PropertyAccessExpression"
    THEN Append(Segments(node.children[1]), node.children[2].text)
    ELSE <<>>

\* a chain that the member-access rule applies to: .length has its own rule
IsPathOn(node, base) ==
    IsChainOn(node, base) /\ node.children[2].text # "length"

IsBinary(node) == node.kind = "BinaryExpression"

\* the text the walker emits for the child i of a quantifier's lambda body,
\* walked from an empty buffer under the bound name v
BodyChildText(expression, bodyPath, i, v) ==
    visitNode(expression, bodyPath \o <<i>>, UndefinedNode, TRUE,
              WalkState("", v)).odataFilter

\* node is collection.some(v => ...) or collection.every(v => ...)
IsQuantifier(node) ==
    /\ node.kind = "CallExpression"
    /\ Len(node.children) = 2
    /\ node.children[1].kind = "PropertyAccessExpression"
    /\ node.children[1].children[2].text \in collectionFunctionNames
    /\ node.children[2].kind = "ArrowFunction"

QuantifierCollection(node) == node.children[1].children[1]

QuantifierMethod(node) == node.children[1].children[2].text

QuantifierVariable(node) == node.children[2].children[1].children[1].text

QuantifierBody(node) == node.children[2].children[Len(node.children[2].children)]

(***************************************************************************)
(* C1.  A binary node is emitted as the serialized left operand, its       *)
(* operator token with exactly one space on each side, and the serialized  *)
(* right operand; the token is gt, ge, lt, le, eq (== and ===), ne (!= and *)
(* !==), and, or, add, sub, mul, div, mod.  This is stated for the binary  *)
(* node that is the body of the predicate and for the binary node that is  *)
(* the body of a quantifier's lambda; a tree with === or !== gives the     *)
(* string of the same tree with == or !=.                                  *)
(***************************************************************************)
C1_Token(kind) ==
    CASE kind = "GreaterThanToken" -> "gt"
      [] kind = "GreaterThanEqualsToken" -> "ge"
      [] kind = "LessThanToken" -> "lt"
      [] kind = "LessThanEqualsToken" -> "le"
      [] kind = "EqualsEqualsToken" -> "eq"
      [] kind = "EqualsEqualsEqualsToken" -> "eq"
      [] kind = "ExclamationEqualsToken" -> "ne"
      [] kind = "ExclamationEqualsEqualsToken" -> "ne"
      [] kind = "AmpersandAmpersandToken" -> "and"
      [] kind = "BarBarToken" -> "or"
      [] kind = "PlusToken" -> "add"
      [] kind = "MinusToken" -> "sub"
      [] kind = "AsteriskToken" -> "mul"
      [] kind = "SlashToken" -> "div"
      [] kind = "PercentToken" -> "mod"

C1_Kinds == ComparisonKinds \cup LogicalKinds \cup arithmeticOperatorKinds

\* the tree with every === written == and every !== written !=
RECURSIVE C1_Loose(_)
C1_Loose(node) ==
    LET kind == CASE node.kind = "EqualsEqualsEqualsToken" -> "EqualsEqualsToken"
                  [] node.kind = "ExclamationEqualsEqualsToken" -> "ExclamationEqualsToken"
                  [] OTHER -> node.kind
    IN  Node(kind, node.text, node.type,
             [i \in 1..Len(node.children) |-> C1_Loose(node.children[i])])

C1_BinaryNode ==
    Returned =>
        /\ (IsBinary(Body) /\ Body.children[2].kind \in C1_Kinds) =>
              result = Filter(Body.children[1]) \o " " \o C1_Token(Body.children[2].kind)
                         \o " " \o Filter(Body.children[3])
        /\ (IsQuantifier(Body) /\ IsBinary(QuantifierBody(Body))
                /\ QuantifierBody(Body).children[2].kind \in C1_Kinds) =>
              LET bodyPath == <<Len(call.arg.children), 2, Len(Body.children[2].children)>>
                  v == QuantifierVariable(Body)
              IN  EndsWith(result,
                           ": " \o BodyChildText(call.arg, bodyPath, 1, v) \o " "
                             \o C1_Token(QuantifierBody(Body).children[2].kind) \o " "
                             \o BodyChildText(call.arg, bodyPath, 3, v) \o ")")
        /\ result = Filter(C1_Loose(Body))

C1_Witness ==
    /\ Returned
    /\ Body = Binary(Chain(Var(Root), <<"person", "age">>), "ExclamationEqualsEqualsToken",
                     NumericLit("15"))
    /\ result = "person/age ne 15"

(***************************************************************************)
(* C2.  An equality comparison of a property against null and against      *)
(* undefined gives the same output, <path> eq null, for == and for ===,    *)
(* and no output holds the placeholder ${undefined}.                       *)
(***************************************************************************)
C2_IsNullish(node) ==
    \/ node.kind = "NullKeyword"
    \/ node.kind = "Identifier" /\ node.text = "undefined"

C2_NullEquality ==
    Returned =>
        /\ (/\ IsBinary(Body)
            /\ Body.children[2].kind \in {"EqualsEqualsToken", "EqualsEqualsEqualsToken"}
            /\ IsPathOn(Body.children[1], Root)
            /\ C2_IsNullish(Body.children[3])) =>
              /\ result = Filter(Body.children[1]) \o " eq null"
              /\ result = Filter(Binary(Body.children[1], "EqualsEqualsToken",
                                        Token("NullKeyword")))
        /\ ~Contains(result, "${undefined}")

C2_Witness ==
    /\ Returned
    /\ Body = Binary(Chain(Var(Root), <<"name">>), "EqualsEqualsEqualsToken",
                     Identifier("undefined", "undefined"))
    /\ result = "name eq null"

(***************************************************************************)
(* C3.  Outside any quantifier a member-access chain x.p1.p2...pn on the   *)
(* root parameter x is emitted as p1/p2/.../pn, the segments in source     *)
(* order and without the name of the root parameter, for every n >= 1:     *)
(* as the whole body, as the left or right operand of a binary node with a *)
(* supported operator, under a negation, inside a grouping and as the      *)
(* receiver of a string method.                                            *)
(***************************************************************************)
C3_Path(node) == Join(Segments(node), "/")

C4_Function(method) == IF method = "some" THEN "any" ELSE "all"

\* v/p1/.../pn for every property access v.p1...pn below node; the callee of
\* a call is a method of its receiver, not a property access
RECURSIVE C4_Paths(_, _)
C4_Paths(node, v) ==
    IF node.kind = "CallExpression" /\ node.children[1].kind = "PropertyAccessExpression"
    THEN C4_Paths(node.children[1].children[1], v)
            \cup UNION {C4_Paths(node.children[i], v) : i \in 2..Len(node.children)}
    ELSE IF IsChainOn(node, v)
    THEN {v \o "/" \o Join(Segments(node), "/")}
    ELSE UNION {C4_Paths(node.children[i], v) : i \in 1..Len(node.children)}

C4_Prefix(node) ==
    C3_Path(QuantifierCollection(node)) \o "/" \o C4_Function(QuantifierMethod(node))
        \o "(" \o QuantifierVariable(node) \o ": "

C4_Quantifier ==
    (Returned /\ IsQuantifier(Body) /\ IsPathOn(QuantifierCollection(Body), Root)) =>
        /\ StartsWith(result, C4_Prefix(Body))
        /\ EndsWith(result, ")")
        /\ \A path \in C4_Paths(QuantifierBody(Body), QuantifierVariable(Body)) :
              Contains(result, path)

(***************************************************************************)
(* C5.  The text emitted for the sub-expression of a quantifier, between   *)
(* "<v>: " and the closing parenthesis, never holds the name of the root   *)
(* parameter: not as a path segment and not inside a placeholder ${...}.   *)
(***************************************************************************)
C5_Letters ==
    { "a", "b", "c", "d", "e", "f", "g", "h", "i", "j", "k", "l", "m", "n", "o", "p",
      "q", "r", "s", "t", "u", "v", "w", "x", "y", "z", "A", "B", "C", "D", "E", "F",
      "G", "H", "I", "J", "K", "L", "M", "N", "O", "P", "Q", "R", "S", "T", "U", "V",
      "W", "X", "Y", "Z", "_" }

\* name occurs in s as a whole word
C5_HasName(s, name) ==
    \E i \in 1..(Len(s) - Len(name) + 1) :
        /\ SubSeq(s, i, i + Len(name) - 1) = name
        /\ i > 1 => SubSeq(s, i - 1, i - 1) \notin C5_Letters
        /\ i + Len(name) <= Len(s) =>
              SubSeq(s, i + Len(name), i + Len(name)) \notin C5_Letters

C5_SubExpression == SubSeq(result, Len(C4_Prefix(Body)) + 1, Len(result) - 1)

C5_NoOuterParameter ==
    (/\ Returned
     /\ IsQuantifier(Body)
     /\ IsPathOn(QuantifierCollection(Body), Root)
     /\ StartsWith(result, C4_Prefix(Body))
     /\ EndsWith(result, ")")) =>
        ~C5_HasName(C5_SubExpression, Root)

(***************************************************************************)
(* C6.  A quantifier that is the body of another quantifier,               *)
(* a.some(v => v.b.some(w => body)), is emitted as                         *)
(* a/any(v: v/b/any(w: <body>)): the inner collection path starts with the *)
(* outer bound name and the inner sub-expression is scoped by the inner    *)
(* bound name.                                                             *)
(***************************************************************************)
C6_NestedQuantifier ==
    (/\ Returned
     /\ IsQuantifier(Body)
     /\ IsPathOn(QuantifierCollection(Body), Root)
     /\ IsQuantifier(QuantifierBody(Body))
     /\ IsPathOn(QuantifierCollection(QuantifierBody(Body)), QuantifierVariable(Body))) =>
        LET inner == QuantifierBody(Body)
        IN  /\ StartsWith(result,
                          C4_Prefix(Body) \o QuantifierVariable(Body) \o "/" \o C4_Prefix(inner))
            /\ EndsWith(result, "))")

(***************************************************************************)
(* C7.  When the body of a quantifier compares the bound variable itself,  *)
(* collection.every(p => p > 10), the bound name is emitted as that        *)
(* operand: <collectionPath>/all(p: p gt 10).                              *)
(***************************************************************************)
C7_IsBound(node, v) == node.kind = "Identifier" /\ node.text = v

C7_BoundVariableOperand ==
    (/\ Returned
     /\ IsQuantifier(Body)
     /\ IsPathOn(QuantifierCollection(Body), Root)
     /\ IsBinary(QuantifierBody(Body))
     /\ QuantifierBody(Body).children[2].kind \in C1_Kinds) =>
        LET v == QuantifierVariable(Body)
            body == QuantifierBody(Body)
            token == " " \o C1_Token(body.children[2].kind) \o " "
        IN  /\ (C7_IsBound(body.children[1], v) /\ body.children[3].kind = "NumericLiteral") =>
                  result = C4_Prefix(Body) \o v \o token \o body.children[3].text \o ")"
            /\ (C7_IsBound(body.children[3], v) /\ body.children[1].kind = "NumericLiteral") =>
                  result = C4_Prefix(Body) \o body.children[1].text \o token \o v \o ")"

(***************************************************************************)
(* C8.  A predicate whose tree holds a node kind or a method name outside  *)
(* the supported grammar (a bitwise operator, a call of an unlisted method *)
(* such as x.name.padStart(2)) makes the call fail with an error and       *)
(* return no string; no string with the construct skipped or partly        *)
(* emitted is returned.                                                    *)
(***************************************************************************)
C8_Methods ==
    { "startsWith", "endsWith", "includes", "indexOf", "substring", "toLowerCase",
      "toLocaleLowerCase", "toUpperCase", "toLocaleUpperCase", "trim", "some", "every" }

RECURSIVE C8_Unsupported(_)
C8_Unsupported(node) ==
    \/ IsBinary(node) /\ node.children[2].kind \in BitwiseKinds
    \/ /\ node.kind = "CallExpression"
       /\ node.children[1].kind = "PropertyAccessExpression"
       /\ node.children[1].children[2].text \notin C8_Methods
    \/ \E i \in 1..Len(node.children) : C8_Unsupported(node.children[i])

C8_UnsupportedConstructFails ==
    (/\ call.fn = "convertExpressionToODataString"
     /\ pc # "called"
     /\ C8_Unsupported(Body)) =>
        pc = "threw" /\ result = "" /\ error # ""

C10_Function(method) ==
    CASE method = "startsWith" -> "startswith"
      [] method = "endsWith" -> "endswith"
      [] method = "indexOf" -> "indexof"
      [] method = "substring" -> "substring"
      [] method = "toLowerCase" -> "tolower"
      [] method = "toLocaleLowerCase" -> "tolower"
      [] method = "toUpperCase" -> "toupper"
      [] method = "toLocaleUpperCase" -> "toupper"
      [] method = "trim" -> "trim"

C10_WithArguments == {"startsWith", "endsWith", "indexOf", "substring"}

C10_WithoutArguments ==
    {"toLowerCase", "toLocaleLowerCase", "toUpperCase", "toLocaleUpperCase", "trim"}

\* node is receiver.method(arguments) for a string method on a path on base
C10_IsMethodCall(node, base) ==
    /\ node.kind = "CallExpression"
    /\ node.children[1].kind = "PropertyAccessExpression"
    /\ node.children[1].children[2].text \in C10_WithArguments \cup C10_WithoutArguments
    /\ IsPathOn(node.children[1].children[1], base)

\* the function form of the call, the path written with the prefix given
C10_Form(node, prefix) ==
    LET method == node.children[1].children[2].text
        path == prefix \o C3_Path(node.children[1].children[1])
        arguments == [i \in 1..(Len(node.children) - 1) |-> getText(node.children[i + 1])]
    IN  IF method \in C10_WithArguments
        THEN C10_Function(method) \o "(" \o path \o ", " \o Join(arguments, ", ") \o ")"
        ELSE C10_Function(method) \o "(" \o path \o ")"

C11_IsIncludes(node) ==
    /\ node.kind = "CallExpression"
    /\ Len(node.children) = 2
    /\ node.children[1].kind = "PropertyAccessExpression"
    /\ node.children[1].children[2].text = "includes"
    /\ IsPathOn(node.children[1].children[1], Root)

C11_Includes ==
    (Returned /\ C11_IsIncludes(Body)) =>
        result = "contains(" \o C3_Path(Body.children[1].children[1]) \o ", "
                   \o getText(Body.children[2]) \o ")"

(***************************************************************************)
(* C12.  receiver.length is emitted by the static type of the receiver:    *)
(* length(<path>) for a string, <path>/$count for an array, a tuple or a   *)
(* readonly array; outside a quantifier the path is written without the    *)
(* root parameter, inside a quantifier body it starts with the bound name. *)
(***************************************************************************)
C12_IsLength(node, base) ==
    /\ node.kind = "PropertyAccessExpression"
    /\ node.children[2].text = "length"
    /\ IsPathOn(node.children[1], base)

C12_StringTypes == {"string"}

C12_CollectionTypes ==
    {"number[]", "Item[]", "Order[]", "readonly number[]", "[number, number]"}

C12_Typed(node) == node.children[1].type \in C12_StringTypes \cup C12_CollectionTypes

C12_Form(node, prefix) ==
    LET path == prefix \o C3_Path(node.children[1])
    IN  IF node.children[1].type \in C12_StringTypes
        THEN "length(" \o path \o ")"
        ELSE path \o "/$count"

C13_IsExternal(node) ==
    \/ node.kind = "Identifier" /\ node.text \notin {Root, "undefined"}
    \/ node.kind = "CallExpression" /\ node.children[1].kind = "Identifier"

C13_Placeholder(node) ==
    IF node.type = "string"
    THEN "'${" \o getText(node) \o "}'"
    ELSE "${" \o getText(node) \o "}"

C13_ExternalReference ==
    Returned =>
        /\ C13_IsExternal(Body) => result = C13_Placeholder(Body)
        /\ (/\ IsBinary(Body)
            /\ Body.children[2].kind \in C1_Kinds
            /\ C13_IsExternal(Body.children[3])) =>
              EndsWith(result, " " \o C13_Placeholder(Body.children[3]))
        /\ (/\ IsBinary(Body)
            /\ Body.children[2].kind \in C1_Kinds
            /\ C13_IsExternal(Body.children[1])) =>
              StartsWith(result, C13_Placeholder(Body.children[1]) \o " ")

(***************************************************************************)
(* C14.  A string literal is emitted as its text between single quotes,    *)
(* with no other escaping, whichever quote the source used (double, single *)
(* or the template quote) and wherever it occurs, as an operand or as the  *)
(* argument of a string method; a number literal is emitted as its text    *)
(* and a boolean as true or false.                                         *)
(***************************************************************************)
C14_IsString(node) == node.kind \in {"StringLiteral", "NoSubstitutionTemplateLiteral"}

C14_IsLiteral(node) ==
    C14_IsString(node) \/ node.kind \in {"NumericLiteral", "TrueKeyword", "FalseKeyword"}

C14_Form(node) ==
    CASE C14_IsString(node) -> "'" \o node.text \o "'"
      [] node.kind = "NumericLiteral" -> node.text
      [] node.kind = "TrueKeyword" -> "true"
      [] node.kind = "FalseKeyword" -> "false"

C14_Literal ==
    Returned =>
        /\ C14_IsLiteral(Body) => result = C14_Form(Body)
        /\ (/\ IsBinary(Body)
            /\ Body.children[2].kind \in C1_Kinds
            /\ C14_IsLiteral(Body.children[3])) =>
              EndsWith(result, " " \o C14_Form(Body.children[3]))
        /\ (/\ C10_IsMethodCall(Body, Root)
            /\ Len(Body.children) = 2
            /\ C14_IsLiteral(Body.children[2])) =>
              EndsWith(result, ", " \o C14_Form(Body.children[2]) \o ")")

(***************************************************************************)
(* C15.  For a boolean property path, the body c.isActive is emitted as    *)
(* the path alone, !c.isActive as not <path> and c.isActive == true as     *)
(* <path> eq true; the three outputs differ pairwise.                      *)
(***************************************************************************)
C15_IsFlag(node) == IsPathOn(node, Root) /\ node.type = "boolean"

RECURSIVE C16_Count(_, _)
C16_Count(s, c) ==
    IF s = "" THEN 0
    ELSE (IF SubSeq(s, 1, 1) = c THEN 1 ELSE 0) + C16_Count(SubSeq(s, 2, Len(s)), c)

\* the tree holds a grouping node or a call
RECURSIVE C16_MayOpen(_)
C16_MayOpen(node) ==
    \/ node.kind \in {"ParenthesizedExpression", "CallExpression"}
    \/ node.kind = "PropertyAccessExpression" /\ node.children[2].text = "length"
    \/ \E i \in 1..Len(node.children) : C16_MayOpen(node.children[i])

C16_Grouping ==
    Returned =>
        /\ Body.kind = "ParenthesizedExpression" =>
              result = "(" \o Filter(Body.children[1]) \o ")"
        /\ (/\ IsQuantifier(Body)
            /\ IsPathOn(QuantifierCollection(Body), Root)
            /\ QuantifierBody(Body).kind = "ParenthesizedExpression") =>
              StartsWith(result, C4_Prefix(Body) \o "(") /\ EndsWith(result, "))")
        /\ ~C16_MayOpen(Body) => C16_Count(result, "(") = 0
        /\ C16_Count(result, "(") = C16_Count(result, ")")

C19_TopLevelFunctionCall ==
    (/\ call.fn = "Deserialize"
     /\ pc # "called"
     /\ call.arg.kind = "SingleValueFunctionCallNode") =>
        pc = "returned" /\ error = "" /\ result = "Func<T, bool>($it)"

(***************************************************************************)
(* C20.  Two calls of the serializer whose steps interleave in any order   *)
(* each return the string they return when run alone, and a call that a    *)
(* caller makes after another one returns its own string too: nothing of   *)
(* the walk of one call (the output buffer, the current parameter name)    *)
(* is seen by another call or left behind for the next.                    *)
(***************************************************************************)
C20_Alone(expression) == convertExpressionToODataString(expression)

C20_InterleavedCalls ==
    \A c \in Callers :
        /\ walks[c].pc = "returned" =>
              /\ ~C20_Alone(walks[c].expression).threw
              /\ walks[c].result = C20_Alone(walks[c].expression).odataFilter
        /\ walks[c].pc = "threw" => C20_Alone(walks[c].expression).threw

\* both callers are back from their second call, on different predicates,
\* and the steps of both calls were taken while the other call was walking
C20_Witness ==
    /\ \A c \in Callers :
          /\ walks[c].pc = "returned"
          /\ walks[c].count = MaxCalls
          /\ walks[c].interleaved
          /\ walks[c].result # ""
    /\ walks[1].expression # walks[2].expression

(***************************************************************************)
(* C21.  The transformer replaces a call by the template literal of its    *)
(* OData string exactly when the callee denotes the imported               *)
(* serializeExpression: an identifier that is the local name a named       *)
(* import of the module binds serializeExpression to, or a property access *)
(* ns.serializeExpression on a namespace alias of the module.  Every other *)
(* call is left as it was.  (Files whose calls all pass an arrow function.)*)
(***************************************************************************)
C21_ImportsOfModule(sourceFile) ==
    {sourceFile.children[i] : i \in {i \in 1..Len(sourceFile.children) :
        /\ sourceFile.children[i].kind = "ImportDeclaration"
        /\ sourceFile.children[i].text = MODULE_NAME}}

\* the local names the file binds the function serializeExpression to
C21_FunctionNames(sourceFile) ==
    UNION {{e.children[Len(e.children)].text :
                e \in {d.children[1].children[i] : i \in 1..Len(d.children[1].children)} \cap
                      {e \in {d.children[1].children[i] : i \in 1..Len(d.children[1].children)} :
                            e.children[1].text = METHOD_NAME}} :
           d \in {d \in C21_ImportsOfModule(sourceFile) : d.children[1].kind = "NamedImports"}}

\* the local names the file binds the module to
C21_NamespaceNames(sourceFile) ==
    {d.children[1].text :
        d \in {d \in C21_ImportsOfModule(sourceFile) : d.children[1].kind = "NamespaceImport"}}

C21_Denotes(sourceFile, node) ==
    LET callee == node.children[1]
    IN  IF callee.kind = "Identifier"
        THEN callee.text \in C21_FunctionNames(sourceFile)
        ELSE /\ callee.children[2].text = METHOD_NAME
             /\ callee.children[1].text \in C21_NamespaceNames(sourceFile)

C21_Calls(sourceFile) ==
    SelectSeq(sourceFile.children, LAMBDA n : n.kind = "CallExpression")

C21_Expected(sourceFile) ==
    LET calls == C21_Calls(sourceFile)
    IN  Join([i \in 1..Len(calls) |->
                IF C21_Denotes(sourceFile, calls[i])
                THEN GraveAccent \o convertExpressionToODataString(calls[i].children[2]).odataFilter
                        \o GraveAccent
                ELSE getText(calls[i])], "; ")

C21_ReplacedExactlyTheImported ==
    (/\ call.fn = "serializeExpressionTransformer"
     /\ pc # "called"
     /\ \A i \in 1..Len(C21_Calls(call.arg)) :
            C21_Calls(call.arg)[i].children[2].kind = "ArrowFunction") =>
        pc = "returned" /\ result = C21_Expected(call.arg)

(***************************************************************************)
(* C22.  When the walk of a node returns, the current parameter name is    *)
(* what it was when the node was entered and the output buffer starts with *)
(* what it held then: text written before a negation or a quantifier is    *)
(* neither lost nor moved.  A property access of the root parameter that   *)
(* follows a quantifier at top level is written without a prefix.          *)
(***************************************************************************)
RECURSIVE C22_Paths(_, _)
C22_Paths(node, path) ==
    {path} \cup UNION {C22_Paths(node.children[i], path \o <<i>>) : i \in 1..Len(node.children)}

\* the states a node may be entered in: something or nothing written, at
\* top level or inside a quantifier
C22_EntryStates ==
    {WalkState(written, parameter) :
        written \in {"", "age gt 5 and ", "items/any(i: "}, parameter \in {Root, "i"}}

C22_ParentNode(expression, path) ==
    IF Len(path) <= 1 THEN UndefinedNode ELSE NodeAt(expression, Parent(path))

C22_Restored(expression, path, includeIdentifier, st) ==
    LET out == visitNode(expression, path, C22_ParentNode(expression, path),
                         includeIdentifier, st)
    IN  ~out.threw =>
            /\ out.lambdaParameter = st.lambdaParameter
            /\ StartsWith(out.odataFilter, st.odataFilter)

\* x.items.some(...) && x.p1...pn <op> ... at top level
C22_AfterQuantifier ==
    /\ IsBinary(Body)
    /\ IsQuantifier(Body.children[1])
    /\ IsBinary(Body.children[3])
    /\ IsChainOn(Body.children[3].children[1], Root)

C22_SaveRestore ==
    Returned =>
        /\ \A path \in C22_Paths(call.arg, <<>>) \ {<<>>} :
             \A includeIdentifier \in BOOLEAN, st \in C22_EntryStates :
                C22_Restored(call.arg, path, includeIdentifier, st)
        /\ C22_AfterQuantifier =>
             Contains(result,
                      ") " \o processBinaryOperator(Body.children[2]) \o " "
                          \o Join(Segments(Body.children[3].children[1]), "/")
                          \o " " \o processBinaryOperator(Body.children[3].children[2]) \o " ")

\* x.items.some(i => i.currentPrice < 10) && x.age >= 18 has been serialized
C22_Witness ==
    /\ Returned
    /\ C22_AfterQuantifier
    /\ EndsWith(result, ") and age ge 18")

(***************************************************************************)
(* C23.  A negation !e, wherever it stands in the predicate, contributes   *)
(* exactly "not " followed by the serialization of e at its place: the     *)
(* output holds one "not " for each negation of the predicate, !e at top   *)
(* level gives "not " and the text of e, and a && !b gives the text of a,  *)
(* " and not " and the text of b.                                          *)
(***************************************************************************)
RECURSIVE C23_Negations(_)
RECURSIVE C23_NegationsFrom(_, _)
C23_Negations(node) ==
    (IF node.kind = "PrefixUnaryExpression" /\ node.text = "!" THEN 1 ELSE 0)
        + C23_NegationsFrom(node, 1)

C23_NegationsFrom(node, i) ==
    IF i > Len(node.children) THEN 0
    ELSE C23_Negations(node.children[i]) + C23_NegationsFrom(node, i + 1)

RECURSIVE C23_Count(_, _)
C23_Count(s, sub) ==
    IF Len(s) < Len(sub) THEN 0
    ELSE (IF SubSeq(s, 1, Len(sub)) = sub THEN 1 ELSE 0)
            + C23_Count(SubSeq(s, 2, Len(s)), sub)

C23_IsNegation(node) == node.kind = "PrefixUnaryExpression" /\ node.text = "!"

C23_Negation ==
    Returned =>
        /\ C23_Count(result, "not ") = C23_Negations(Body)
        /\ C23_IsNegation(Body) => result = "not " \o Filter(Body.children[1])
        /\ (/\ IsBinary(Body)
            /\ Body.children[2].kind = "AmpersandAmpersandToken"
            /\ C23_IsNegation(Body.children[3])) =>
                result = Filter(Body.children[1]) \o " and not "
                            \o Filter(Body.children[3].children[1])

(***************************************************************************)
(* C24.  The search for the root parameter returns the first parameter met *)
(* in a depth-first search through the object of a member access, the left *)
(* and then the right operand of a binary expression and the operand of a  *)
(* unary expression: the parameter of the left operand when both operands  *)
(* hold one, the parameter of the right operand when the left holds none.  *)
(***************************************************************************)
\* the parameters the search can reach below expression, in its order
RECURSIVE C24_Parameters(_)
C24_Parameters(expression) ==
    CASE expression.kind = "ParameterExpression" -> <<expression>>
      [] expression.kind \in {"MemberExpression", "UnaryExpression"} ->
            C24_Parameters(expression.children[1])
      [] expression.kind = "BinaryExpression" ->
            C24_Parameters(expression.children[1]) \o C24_Parameters(expression.children[2])
      [] OTHER -> <<>>

C24_Searched == call.fn = "GetParameterExpression" /\ pc # "called"

C24_LeftFirst ==
    (C24_Searched /\ C24_Parameters(call.arg) # <<>>) =>
        /\ pc = "returned"
        /\ result = Head(C24_Parameters(call.arg)).text
        /\ call.arg.kind = "BinaryExpression" =>
             LET left == C24_Parameters(call.arg.children[1])
                 right == C24_Parameters(call.arg.children[2])
             IN  /\ left # <<>> => result = Head(left).text
                 /\ (left = <<>> /\ right # <<>>) => result = Head(right).text

\* the search has returned on a binary expression whose operands hold
\* different parameters, with the parameter of the left operand
C24_WitnessBoth ==
    /\ C24_Searched
    /\ call.arg.kind = "BinaryExpression"
    /\ C24_Parameters(call.arg.children[1]) # <<>>
    /\ C24_Parameters(call.arg.children[2]) # <<>>
    /\ Head(C24_Parameters(call.arg.children[1])) # Head(C24_Parameters(call.arg.children[2]))
    /\ result = Head(C24_Parameters(call.arg.children[1])).text

(***************************************************************************)
(* C25.  The search for the root parameter ends in one of two ways: a      *)
(* parameter is found and handed to the compiler of the predicate, or none *)
(* is found and the error "Unable to find parameter expression." is        *)
(* raised.  A null parameter is never handed on, at whatever depth the     *)
(* search ran out.                                                         *)
(***************************************************************************)
C25_FoundOrExhausted ==
    (call.fn = "Deserialize" /\ pc # "called") =>
        \/ pc = "returned" /\ result = "Func<T, bool>($it)"
        \/ pc = "threw" /\ error = "InvalidOperationException: " \o InvalidOperation.text

(***************************************************************************)
(* C26.  The compiler of the predicate returns a predicate only when the   *)
(* expression is a lambda whose delegate type can be assigned to a         *)
(* function from T to bool.  When the expression is no lambda, or its type *)
(* does not match, it raises an invalid-operation error and returns no     *)
(* predicate.                                                              *)
(***************************************************************************)
C26_Matches ==
    /\ call.arg.expression.kind = "LambdaExpression"
    /\ call.arg.expression.type.delegate = "Func"
    /\ call.arg.expression.type.return = "bool"
    /\ call.arg.expression.type.parameter \in AssignableTo(call.arg.T)

C26_PredicateOrInvalidOperation ==
    (call.fn = "ExpressionToFunc" /\ pc # "called") =>
        IF C26_Matches
        THEN pc = "returned" /\ result = "Func<" \o call.arg.T \o ", bool>" /\ error = ""
        ELSE pc = "threw" /\ result = "" /\ StartsWith(error, "InvalidOperationException: ")

\* a lambda of a delegate type that does not match has been refused
C26_Witness ==
    /\ call.fn = "ExpressionToFunc"
    /\ pc = "threw"
    /\ call.arg.expression.kind = "LambdaExpression"
    /\ call.arg.expression.type.return = "int"
    /\ EndsWith(error, "does not match the required delegate type 'Func<T, bool>'.")

(***************************************************************************)
(* C27.  The sub-expression of a quantifier is serialized by the rules of  *)
(* a top-level body, whatever the kind of the root node of the lambda      *)
(* body: a negation starts with "not ", a string-method call is in the     *)
(* function form, a bare boolean property is the path with the bound name  *)
(* as prefix, a quantifier is the nested quantifier form.                  *)
(***************************************************************************)
\* the output up to the sub-expression of the quantifier node, over base
C27_Prefix(node, base) ==
    (IF base = Root THEN "" ELSE base \o "/")
        \o Join(Segments(QuantifierCollection(node)), "/") \o "/"
        \o getCollectionFunction(QuantifierMethod(node))
        \o "(" \o QuantifierVariable(node) \o ": "

C27_BoundPath(node, v) == v \o "/" \o Join(Segments(node), "/")

C27_RootKinds ==
    (Returned /\ IsQuantifier(Body) /\ IsChainOn(QuantifierCollection(Body), Root)) =>
        LET v == QuantifierVariable(Body)
            b == QuantifierBody(Body)
            prefix == C27_Prefix(Body, Root)
        IN  /\ (b.kind = "PrefixUnaryExpression" /\ b.text = "!") =>
                    StartsWith(result, prefix \o "not ")
            /\ C10_IsMethodCall(b, v) =>
                    result = prefix
                        \o processMethodCall(b.children[1].children[2].text,
                                             C27_BoundPath(b.children[1].children[1], v),
                                             processLiteralOperator(b.children[2]))
                        \o ")"
            /\ IsPathOn(b, v) => result = prefix \o C27_BoundPath(b, v) \o ")"
            /\ (IsQuantifier(b) /\ IsChainOn(QuantifierCollection(b), v)) =>
                    StartsWith(result, prefix \o C27_Prefix(b, v))

(***************************************************************************)
(* C28.  A prefix unary operator other than ! (the minus of x.age > -5) is *)
(* never dropped silently: the call fails, or the output holds the         *)
(* operator; the string of the predicate without it is never returned.     *)
(***************************************************************************)
\* the prefix unary operators other than ! below node
RECURSIVE C28_Operators(_)
C28_Operators(node) ==
    (IF node.kind = "PrefixUnaryExpression" /\ node.text # "!" THEN {node.text} ELSE {})
        \cup UNION {C28_Operators(node.children[i]) : i \in 1..Len(node.children)}

\* node without its prefix unary operators other than !
RECURSIVE C28_Stripped(_)
C28_Stripped(node) ==
    IF node.kind = "PrefixUnaryExpression" /\ node.text # "!"
    THEN C28_Stripped(node.children[1])
    ELSE [node EXCEPT !.children = [i \in 1..Len(node.children) |-> C28_Stripped(node.children[i])]]

C28_OperatorKept ==
    (/\ call.fn = "convertExpressionToODataString"
     /\ pc # "called"
     /\ C28_Operators(Body) # {}) =>
        \/ pc = "threw"
        \/ /\ \A operator \in C28_Operators(Body) : Contains(result, operator)
           /\ result # Filter(C28_Stripped(Body))

(***************************************************************************)
(* C29.  The argument of a string-method call is serialized as any other   *)
(* operand is: a captured variable as a placeholder (in quotes when it is  *)
(* a string), a property of the parameter as a path, a string literal in   *)
(* single quotes.  The source text of the argument is never copied.        *)
(***************************************************************************)
C29_IsCall ==
    /\ Returned
    /\ Body.kind = "CallExpression"
    /\ Len(Body.children) = 2
    /\ Body.children[1].kind = "PropertyAccessExpression"
    /\ Body.children[1].children[2].text \in {"startsWith", "endsWith"}
    /\ IsPathOn(Body.children[1].children[1], Root)

C29_Argument ==
    C29_IsCall =>
        result = processMethodCall(Body.children[1].children[2].text,
                                   Join(Segments(Body.children[1].children[1]), "/"),
                                   Filter(Body.children[2]))

(***************************************************************************)
(* C30.  A member access whose chain starts at something other than the    *)
(* current lambda parameter (a property of a captured object such as       *)
(* config.minAge, or of this) is an external reference: at top level it is *)
(* never written as a bare property path of the entity (minAge).           *)
(***************************************************************************)
\* what the chain node starts at
RECURSIVE C30_RootOf(_)
C30_RootOf(node) ==
    IF node.kind = "PropertyAccessExpression" THEN C30_RootOf(node.children[1]) ELSE node

C30_IsCaptured(node) ==
    /\ node.kind = "PropertyAccessExpression"
    /\ ~(C30_RootOf(node).kind = "Identifier" /\ C30_RootOf(node).text = Root)

C30_NoBarePath ==
    (Returned /\ IsBinary(Body) /\ C30_IsCaptured(Body.children[3])) =>
        /\ ~EndsWith(result, " " \o Join(Segments(Body.children[3]), "/"))
        /\ result # Filter(Binary(Body.children[1], Body.children[2].kind,
                                  Chain(Var(Root), Segments(Body.children[3]))))

====
